---------------------------- MODULE OneTimeCodes ----------------------------
(***************************************************************************)
(* What the login promises of its codes                                    *)
(* (service/src/skillledger_service/routers/auth_router.py), whatever the  *)
(* requests do at the same time: a code takes a limited number of wrong    *)
(* guesses, logs in once, and then takes no guess at all.                  *)
(***************************************************************************)
EXTENDS Naturals, Sequences

CONSTANT AttemptLimit   \* guesses per code

VARIABLE sent           \* the codes in the order they were sent

CodesInit == sent = << >>

\* A new code is sent.
Send == sent' = Append(sent, [wrong |-> 0, logins |-> 0])

\* The codes that may still be tried.
Open == {i \in 1 .. Len(sent) :
           sent[i].logins = 0 /\ sent[i].wrong < AttemptLimit}

\* A wrong guess uses up one of the attempts.
Miss(i) == sent' = [sent EXCEPT ![i].wrong = @ + 1]

\* The right one is good for one login.
Use(i) == sent' = [sent EXCEPT ![i].logins = @ + 1]

CodesNext == Send \/ \E i \in Open : Miss(i) \/ Use(i)

CodesSpec == CodesInit /\ [][CodesNext]_sent
=============================================================================
