------------------------------ MODULE OtpLogin ------------------------------
(***************************************************************************)
(* Login codes of one address                                              *)
(* (service/src/skillledger_service/routers/auth_router.py: register and   *)
(* verify).  Requests run concurrently; the count of recent codes and the  *)
(* insertion of a new one are two statements without a lock, while verify  *)
(* locks the row it has selected until it commits.                         *)
(*                                                                         *)
(* Time is counted in steps of five minutes.  Whether a guess is right is  *)
(* a choice.                                                               *)
(***************************************************************************)
EXTENDS Naturals, Sequences, FiniteSetsExt

CONSTANTS
  Registrations,  \* register requests
  Verifiers,      \* goroutines that serve verify requests
  SendLimit,      \* codes per window: 3
  AttemptLimit,   \* guesses per code: 5
  Window,         \* the 15 minutes of the send limit
  Life,           \* the 10 minutes a code is valid
  MaxCodeTime     \* bound: time

ASSUME OtpAssumption ==
  /\ SendLimit \in Nat /\ AttemptLimit \in Nat
  /\ Window \in Nat /\ Life \in Nat /\ Life <= Window /\ MaxCodeTime \in Nat

VARIABLES
  codeTime,   \* now
  codes,      \* every code that was stored, in the order of created_at
  regPc,      \* where a register request is
  found,      \* the code whose row a verify request waits for, 0 for none
  holds,      \* the code whose row a verify request has locked, 0 for none
  logins,     \* ghost: logins by code
  lastLogin,  \* ghost: codes stored before the last login
  serial      \* ghost: no two register requests have overlapped

otpVars ==
  << codeTime, codes, regPc, found, holds, logins, lastLogin, serial >>

Code == [at : 0 .. MaxCodeTime, attempts : 0 .. AttemptLimit, stored : BOOLEAN]

OtpTypeOK ==
  /\ codeTime \in 0 .. MaxCodeTime
  /\ codes \in Seq(Code)
  /\ Len(codes) = Cardinality({r \in Registrations : regPc[r] = "200"})
  /\ regPc \in [Registrations -> {"new", "insert", "200", "429"}]
  /\ found \in [Verifiers -> 0 .. Len(codes)]
  /\ holds \in [Verifiers -> 0 .. Len(codes)]
  /\ logins \in [1 .. Len(codes) -> Nat]
  /\ lastLogin \in 0 .. Len(codes)
  /\ serial \in BOOLEAN

OtpInit ==
  /\ codeTime = 0
  /\ codes = << >>
  /\ regPc = [r \in Registrations |-> "new"]
  /\ found = [v \in Verifiers |-> 0]
  /\ holds = [v \in Verifiers |-> 0]
  /\ logins = << >>
  /\ lastLogin = 0
  /\ serial = TRUE

CodeTick ==
  /\ codeTime < MaxCodeTime
  /\ codeTime' = codeTime + 1
  /\ UNCHANGED << codes, regPc, found, holds, logins, lastLogin, serial >>

\* Counts the codes that can still be used.
CountValid ==
  Cardinality({i \in 1 .. Len(codes) :
                 codes[i].stored /\ codes[i].at + Life > codeTime})

\* The codes of the window that are still stored.
CountRecent ==
  Cardinality({i \in 1 .. Len(codes) :
                 codes[i].stored /\ codes[i].at + Window >= codeTime})

\* register: the count ...
CountCodes(r) ==
  /\ regPc[r] = "new"
  /\ regPc' = [regPc EXCEPT ![r] =
                 IF CountRecent >= SendLimit THEN "429" ELSE "insert"]
  /\ serial' = (serial /\ \A q \in Registrations : regPc[q] # "insert")
  /\ UNCHANGED << codeTime, codes, found, holds, logins, lastLogin >>

\* ... and the new code.  Its mail may get lost, which changes nothing here.
StoreCode(r) ==
  /\ regPc[r] = "insert"
  /\ codes' = Append(codes, [at |-> codeTime, attempts |-> 0, stored |-> TRUE])
  /\ logins' = Append(logins, 0)
  /\ regPc' = [regPc EXCEPT ![r] = "200"]
  /\ UNCHANGED << codeTime, found, holds, lastLogin, serial >>

Valid == {i \in 1 .. Len(codes) :
            codes[i].stored /\ codes[i].at + Life > codeTime}

\* verify: the SELECT finds the newest code that is valid (if there is none,
\* the request is refused and nothing changes) and queues for its row.
FindCode(v) ==
  /\ found[v] = 0 /\ holds[v] = 0
  /\ Valid # {}
  /\ found' = [found EXCEPT ![v] = Max(Valid)]
  /\ UNCHANGED << codeTime, codes, regPc, holds, logins, lastLogin, serial >>

\* The code may be tried: its row is there, its attempts are not used up.
MayBeTried(i) == codes[i].stored /\ codes[i].attempts < AttemptLimit

\* A SELECT without FOR UPDATE.
SelectUnlocked(v) ==
  /\ found[v] # 0
  /\ found' = [found EXCEPT ![v] = 0]
  /\ holds' = [holds EXCEPT ![v] = IF MayBeTried(found[v]) THEN found[v] ELSE 0]
  /\ UNCHANGED << codeTime, codes, regPc, logins, lastLogin, serial >>

\* FOR UPDATE: once no other request has the row, this one has it as it is by
\* now; that is still the row the SELECT found, though a newer code may have
\* been stored or this one expired meanwhile.
SelectCode(v) ==
  /\ found[v] # 0
  /\ \A u \in Verifiers : holds[u] # found[v]
  /\ found' = [found EXCEPT ![v] = 0]
  /\ holds' = [holds EXCEPT ![v] = IF MayBeTried(found[v]) THEN found[v] ELSE 0]
  /\ UNCHANGED << codeTime, codes, regPc, logins, lastLogin, serial >>

\* A wrong guess commits the attempt.
WrongCode(v) ==
  /\ holds[v] # 0
  /\ codes' = [codes EXCEPT ![holds[v]].attempts = @ + 1]
  /\ holds' = [holds EXCEPT ![v] = 0]
  /\ UNCHANGED << codeTime, regPc, found, logins, lastLogin, serial >>

\* The right one deletes the code and returns tokens.
RightCode(v) ==
  /\ holds[v] # 0
  /\ codes' = [codes EXCEPT ![holds[v]].stored = FALSE]
  /\ logins' = [logins EXCEPT ![holds[v]] = @ + 1]
  /\ lastLogin' = Len(codes)
  /\ holds' = [holds EXCEPT ![v] = 0]
  /\ UNCHANGED << codeTime, regPc, found, serial >>

\* The request fails before it commits: the attempt is not counted.
VerifyAborts(v) ==
  /\ holds[v] # 0
  /\ holds' = [holds EXCEPT ![v] = 0]
  /\ UNCHANGED << codeTime, codes, regPc, found, logins, lastLogin, serial >>

OtpNext ==
  \/ CodeTick
  \/ \E r \in Registrations : CountCodes(r) \/ StoreCode(r)
  \/ \E v \in Verifiers :
       FindCode(v) \/ SelectCode(v) \/ WrongCode(v) \/ RightCode(v) \/ VerifyAborts(v)

OtpSpec == OtpInit /\ [][OtpNext]_otpVars

-----------------------------------------------------------------------------
(* Between two logins no window of 15 minutes has more than the permitted
   number of codes, as long as register requests do not overlap: so that new
   codes are no way around the limit of attempts per code. *)
SendsBounded ==
  serial =>
    \A i \in lastLogin + 1 .. Len(codes) :
      Cardinality({j \in lastLogin + 1 .. i : codes[j].at + Window >= codes[i].at})
        <= SendLimit

(* Concurrent requests keep what is promised of a code: it logs in at most
   once, no guess is answered beyond its limit of attempts and none after the
   code has logged in, though verify reads the row in one statement and writes
   it in another (it holds the lock of the row in between). *)
SentCodes ==
  [i \in 1 .. Len(codes) |-> [wrong |-> codes[i].attempts, logins |-> logins[i]]]

OneTime == INSTANCE OneTimeCodes WITH sent <- SentCodes

ImplementsOneTimeCodes == OneTime!CodesSpec
=============================================================================
