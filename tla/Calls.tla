------------------------------- MODULE Calls --------------------------------
(***************************************************************************)
(* C functions that return 0 or an error, as operators from the state of   *)
(* an operation so far to its state afterwards.  The state is a record s   *)
(* with at least                                                           *)
(*    err      what the function returned, "ok" for 0;                     *)
(*    ret      what it handed back through a pointer;                      *)
(*    panic    the failed assertion or panic that stopped the machine;     *)
(*    calls    how many calls that may fail have been made;                *)
(*    failing  the numbers of those that do.                               *)
(***************************************************************************)
EXTENDS Naturals

Ok(s)         == s.err = "ok" /\ s.panic = "no"
Return(s, e)  == [s EXCEPT !.err = e]
Panic(s, why) == [s EXCEPT !.err = "panic", !.panic = IF @ = "no" THEN why ELSE @]

(* KASSERT(test), or if (!test) panic(why); and go on with F.              *)
Kassert(s, test, why, F(_)) == IF test THEN F(s) ELSE Panic(s, why)

(* if (result) return result; and go on with F.                            *)
Then(s, F(_)) == IF Ok(s) THEN F(s) ELSE s

(* if (result) { F; return result; }                                       *)
Catch(s, F(_)) == IF Ok(s) \/ s.panic # "no" THEN s ELSE [F(s) EXCEPT !.err = s.err]

(* F, whatever the result so far, which is kept.                           *)
Also(s, F(_)) == IF s.panic # "no" THEN s
                 ELSE [F(s) EXCEPT !.err = IF @ = "panic" THEN @ ELSE s.err]

(* A call that may fail with error e.                                      *)
Try(s, e) ==
    [s EXCEPT !.calls = @ + 1,
              !.err = IF s.calls + 1 \in s.failing THEN e ELSE "ok"]

(* Did the operation meet one of its failing calls?                        *)
Met(s) == \E n \in s.failing : n <= s.calls
=============================================================================
