--------------------------- MODULE ServiceProofs ----------------------------
(***************************************************************************)
(* Proofs about what the service and its database promise, for any number of*)
(* requests and any bounds, and about the session that a login opens: each *)
(* section has the inductive invariant of one component, the steps that keep*)
(* it and the theorems that follow.                                        *)
(***************************************************************************)
EXTENDS MCComponents, CommandProofs

-----------------------------------------------------------------------------
(***************************************************************************)
(* OtpLogin: a code is used once, and in any window only so many are sent. *)
(***************************************************************************)

\* A bounded set of numbers that is not empty has a largest one.
LEMMA MaxInSet ==
  ASSUME NEW n \in Nat, NEW S \in SUBSET (0 .. n), S # {}
  PROVE  Max(S) \in S /\ \A x \in S : x <= Max(S)
  <1> DEFINE Bounds == {b \in Nat : \A x \in S : x <= b}
  <1>1. Bounds \subseteq Nat /\ n \in Bounds
    OBVIOUS
  <1>2. PICK b \in Bounds : \A c \in Bounds : ~(<< c, b >> \in OpToRel(<, Nat))
    BY <1>1, NatLessThanWellFounded, WFMin
  <1>3. \A c \in Bounds : ~(c < b)
    BY <1>1, <1>2 DEF OpToRel
  <1>4. b \in S
    <2> SUFFICES ASSUME b \notin S PROVE FALSE
      OBVIOUS
    <2>1. \A x \in S : x \in Nat /\ x < b
      OBVIOUS
    <2>2. PICK x \in S : TRUE
      OBVIOUS
    <2>3. b - 1 \in Nat /\ \A y \in S : y <= b - 1
      BY <2>1, <2>2
    <2> QED BY <1>3, <2>3
  <1>5. \E x \in S : \A y \in S : x >= y
    BY <1>4
  <1>6. Max(S) \in S /\ \A y \in S : Max(S) >= y
    BY <1>5 DEF Max
  <1> QED BY <1>6

-----------------------------------------------------------------------------
\* The codes from the last login to i that are in a window ending at t.
RecentSince(i, t) == {j \in lastLogin + 1 .. i : codes[j].at + Window >= t}

OtpShapes ==
  /\ codeTime \in 0 .. MaxCodeTime
  /\ codes \in Seq(Code)
  /\ regPc \in [Registrations -> {"new", "insert", "200", "429"}]
  /\ found \in [Verifiers -> 0 .. Len(codes)]
  /\ holds \in [Verifiers -> 0 .. Len(codes)]
  /\ logins \in Seq(Nat) /\ Len(logins) = Len(codes)
  /\ lastLogin \in 0 .. Len(codes)
  /\ serial \in BOOLEAN

\* A row is locked by one request, and only while the code may be used.
LocksOK ==
  /\ \A u, v \in Verifiers : holds[u] # 0 /\ holds[u] = holds[v] => u = v
  /\ \A v \in Verifiers : holds[v] # 0 =>
       codes[holds[v]].stored /\ codes[holds[v]].attempts < AttemptLimit

\* A code that is stored has not been used.
LoginsOK ==
  \A i \in 1 .. Len(codes) : logins[i] <= 1 /\ (codes[i].stored => logins[i] = 0)

\* A login deletes a code and starts the count anew.
StoredOK == \A i \in lastLogin + 1 .. Len(codes) : codes[i].stored

\* A request between its count and its code has room in the window that ends
\* now, and is the only one.
SendsOK ==
  serial =>
    /\ \A r, q \in Registrations : regPc[r] = "insert" /\ regPc[q] = "insert" => r = q
    /\ \A r \in Registrations : regPc[r] = "insert" =>
         Cardinality(RecentSince(Len(codes), codeTime)) < SendLimit
    /\ \A i \in lastLogin + 1 .. Len(codes) :
         Cardinality(RecentSince(i, codes[i].at)) <= SendLimit

OtpIInv == OtpShapes /\ LocksOK /\ LoginsOK /\ StoredOK /\ SendsOK

-----------------------------------------------------------------------------
\* No code has been sent or used.
LEMMA OtpInitial == OtpInit => OtpIInv
  <1> SUFFICES ASSUME OtpInit PROVE OtpIInv
    OBVIOUS
  <1>1. OtpShapes
    BY OtpAssumption DEF OtpInit, OtpShapes
  <1>2. LocksOK /\ LoginsOK /\ StoredOK /\ SendsOK
    BY DEF OtpInit, LocksOK, LoginsOK, StoredOK, SendsOK
  <1> QED BY <1>1, <1>2 DEF OtpIInv

\* What verify selects is a code that is stored.
LEMMA SelectedValid ==
  ASSUME OtpShapes, Valid # {}
  PROVE  Max(Valid) \in 1 .. Len(codes) /\ codes[Max(Valid)].stored
  <1>1. Len(codes) \in Nat /\ Valid \in SUBSET (0 .. Len(codes))
    BY DEF OtpShapes, Valid
  <1>2. Max(Valid) \in Valid
    BY <1>1, MaxInSet
  <1> QED BY <1>2 DEF Valid

\* A window is finite, and its part is no larger.
LEMMA WindowFinite ==
  ASSUME OtpShapes, NEW i \in 0 .. Len(codes), NEW S \in SUBSET (lastLogin + 1 .. i)
  PROVE  IsFiniteSet(S) /\ Cardinality(S) \in Nat
  <1>1. IsFiniteSet(lastLogin + 1 .. i)
    <2>1. lastLogin + 1 \in Int /\ i \in Int
      BY DEF OtpShapes
    <2> QED BY <2>1, FS_Interval
  <1> QED BY <1>1, FS_Subset, FS_CardinalityType

\* The codes since the last login are among those that register counts.
LEMMA CountedRecent ==
  ASSUME OtpShapes, StoredOK
  PROVE  /\ Cardinality(RecentSince(Len(codes), codeTime)) <= CountRecent
         /\ Cardinality(RecentSince(Len(codes), codeTime)) \in Nat
         /\ CountRecent \in Nat
  <1> DEFINE C == {i \in 1 .. Len(codes) : codes[i].stored /\ codes[i].at + Window >= codeTime}
  <1>1. Len(codes) \in Nat /\ lastLogin \in Nat
    BY DEF OtpShapes
  <1>2. RecentSince(Len(codes), codeTime) \subseteq C
    BY <1>1 DEF RecentSince, StoredOK
  <1>3. IsFiniteSet(C)
    <2>1. IsFiniteSet(1 .. Len(codes))
      BY <1>1, FS_Interval
    <2> QED BY <2>1, FS_Subset
  <1> QED BY <1>2, <1>3, FS_Subset, FS_CardinalityType DEF CountRecent

\* Later, the window has no more of them.
LEMMA WindowShrinks ==
  ASSUME OtpShapes, codeTime' = codeTime + 1, codes' = codes, lastLogin' = lastLogin
  PROVE  Cardinality(RecentSince(Len(codes), codeTime)') <=
           Cardinality(RecentSince(Len(codes), codeTime))
  <1> DEFINE A == RecentSince(Len(codes), codeTime)
             B == {j \in lastLogin + 1 .. Len(codes) : codes[j].at + Window >= codeTime + 1}
  <1>1. RecentSince(Len(codes), codeTime)' = B
    BY DEF RecentSince
  <1>2. \A j \in lastLogin + 1 .. Len(codes) : codes[j].at \in Nat
    <2>1. \A j \in lastLogin + 1 .. Len(codes) : codes[j] \in Code
      BY DEF OtpShapes
    <2> QED BY <2>1, OtpAssumption DEF Code
  <1>3. B \subseteq A
    <2>1. codeTime \in Nat /\ Window \in Nat
      BY OtpAssumption DEF OtpShapes
    <2>2. \A j \in lastLogin + 1 .. Len(codes) :
            codes[j].at + Window >= codeTime + 1 => codes[j].at + Window >= codeTime
      BY <1>2, <2>1
    <2> QED BY <2>2 DEF RecentSince
  <1>4. IsFiniteSet(A)
    <2>1. Len(codes) \in 0 .. Len(codes) /\ A \in SUBSET (lastLogin + 1 .. Len(codes))
      BY DEF RecentSince, OtpShapes
    <2> QED BY <2>1, WindowFinite
  <1> QED BY <1>1, <1>3, <1>4, FS_Subset

-----------------------------------------------------------------------------
\* Every step keeps the invariant.
LEMMA OtpStep ==
  ASSUME OtpIInv, [OtpNext]_otpVars
  PROVE  OtpIInv'
  <1> USE OtpAssumption
  <1>0. OtpShapes /\ LocksOK /\ LoginsOK /\ StoredOK /\ SendsOK
    BY DEF OtpIInv
  <1>1. CASE CodeTick
    <2>1. OtpShapes'
      BY <1>0, <1>1 DEF CodeTick, OtpShapes
    <2>2. LocksOK' /\ LoginsOK' /\ StoredOK'
      BY <1>0, <1>1 DEF CodeTick, LocksOK, LoginsOK, StoredOK
    <2>3. SendsOK'
      <3>1. /\ Cardinality(RecentSince(Len(codes), codeTime)') <=
                 Cardinality(RecentSince(Len(codes), codeTime))
            /\ codes' = codes /\ lastLogin' = lastLogin /\ regPc' = regPc /\ serial' = serial
        BY <1>0, <1>1, WindowShrinks DEF CodeTick
      <3>2. /\ Cardinality(RecentSince(Len(codes), codeTime)) \in Nat
            /\ Cardinality(RecentSince(Len(codes), codeTime)') \in Nat
        <4>1. /\ Len(codes) \in 0 .. Len(codes)
              /\ RecentSince(Len(codes), codeTime) \in SUBSET (lastLogin + 1 .. Len(codes))
              /\ RecentSince(Len(codes), codeTime)' \in SUBSET (lastLogin + 1 .. Len(codes))
          BY <1>0, <3>1 DEF RecentSince, OtpShapes
        <4> QED BY <1>0, <4>1, WindowFinite
      <3>3. ASSUME serial, NEW r \in Registrations, regPc[r] = "insert"
            PROVE  Cardinality(RecentSince(Len(codes), codeTime)') < SendLimit
        BY <1>0, <3>1, <3>2, <3>3 DEF SendsOK
      <3>4. \A i : RecentSince(i, codes[i].at)' = RecentSince(i, codes[i].at)
        BY <3>1 DEF RecentSince
      <3> QED BY <1>0, <3>1, <3>3, <3>4 DEF SendsOK
    <2> QED BY <2>1, <2>2, <2>3 DEF OtpIInv
  <1>2. ASSUME NEW r \in Registrations, CountCodes(r)
        PROVE  OtpIInv'
    <2>1. OtpShapes'
      BY <1>0, <1>2 DEF CountCodes, OtpShapes
    <2>2. LocksOK' /\ LoginsOK' /\ StoredOK'
      BY <1>0, <1>2 DEF CountCodes, LocksOK, LoginsOK, StoredOK
    <2>3. SendsOK'
      <3> SUFFICES ASSUME serial' PROVE SendsOK'
        BY DEF SendsOK
      <3>1. /\ serial /\ \A q \in Registrations : regPc[q] # "insert"
            /\ codes' = codes /\ lastLogin' = lastLogin /\ codeTime' = codeTime
        BY <1>2 DEF CountCodes
      <3>3. \A q \in Registrations : regPc'[q] = "insert" => q = r /\ CountRecent < SendLimit
        <4>1. CountRecent \in Nat
          BY <1>0, CountedRecent
        <4> QED BY <1>0, <1>2, <3>1, <4>1 DEF CountCodes, OtpShapes
      <3>4. CountRecent < SendLimit => Cardinality(RecentSince(Len(codes), codeTime)) < SendLimit
        BY <1>0, CountedRecent
      <3>5. \A i \in lastLogin + 1 .. Len(codes) :
              Cardinality(RecentSince(i, codes[i].at)) <= SendLimit
        BY <1>0, <3>1 DEF SendsOK
      <3>6. Cardinality(RecentSince(Len(codes), codeTime)')
              = Cardinality(RecentSince(Len(codes), codeTime))
        BY <3>1 DEF RecentSince
      <3>7. \A i : RecentSince(i, codes[i].at)' = RecentSince(i, codes[i].at)
        BY <3>1 DEF RecentSince
      <3> QED BY <3>1, <3>3, <3>4, <3>5, <3>6, <3>7 DEF SendsOK
    <2> QED BY <2>1, <2>2, <2>3 DEF OtpIInv
  <1>3. ASSUME NEW r \in Registrations, StoreCode(r)
        PROVE  OtpIInv'
    <2> DEFINE n == Len(codes)
               c == [at |-> codeTime, attempts |-> 0, stored |-> TRUE]
    <2>1. /\ n \in Nat /\ c \in Code /\ codes' = Append(codes, c) /\ codes' \in Seq(Code)
          /\ Len(codes') = n + 1 /\ codes'[n + 1] = c /\ \A i \in 1 .. n : codes'[i] = codes[i]
      BY <1>0, <1>3 DEF StoreCode, OtpShapes, Code
    <2>2. /\ logins' \in Seq(Nat) /\ Len(logins') = n + 1 /\ logins'[n + 1] = 0
          /\ \A i \in 1 .. n : logins'[i] = logins[i]
      BY <1>0, <1>3 DEF StoreCode, OtpShapes
    <2>3. OtpShapes'
      BY <1>0, <1>3, <2>1, <2>2 DEF StoreCode, OtpShapes
    <2>4. LocksOK'
      <3>1. \A v \in Verifiers : holds[v] # 0 => holds[v] \in 1 .. n
        BY <1>0 DEF OtpShapes
      <3> QED BY <1>0, <1>3, <2>1, <3>1 DEF StoreCode, LocksOK
    <2>5. LoginsOK'
      <3>1. \A i \in 1 .. n + 1 : i \in 1 .. n \/ i = n + 1
        BY <2>1
      <3> QED BY <1>0, <2>1, <2>2, <3>1 DEF LoginsOK
    <2>6. lastLogin \in Nat /\ \A i \in lastLogin + 1 .. n + 1 :
            (i \in lastLogin + 1 .. n /\ i \in 1 .. n) \/ i = n + 1
      BY <1>0, <2>1 DEF OtpShapes
    <2>7. StoredOK'
      BY <1>0, <1>3, <2>1, <2>6 DEF StoreCode, StoredOK
    <2>8. SendsOK'
      <3> SUFFICES ASSUME serial' PROVE SendsOK'
        BY DEF SendsOK
      <3>1. serial /\ lastLogin' = lastLogin /\ codeTime' = codeTime /\ regPc[r] = "insert"
        BY <1>3 DEF StoreCode
      <3>2. \A q \in Registrations : regPc'[q] # "insert"
        BY <1>0, <1>3, <3>1 DEF StoreCode, OtpShapes, SendsOK
      <3>3. ASSUME NEW i \in lastLogin + 1 .. n + 1
            PROVE  Cardinality(RecentSince(i, codes[i].at)') <= SendLimit
        <4>1. CASE i # n + 1
          <5>1. i \in lastLogin + 1 .. n /\ \A j \in lastLogin + 1 .. i : j \in 1 .. n
            BY <2>1, <2>6, <4>1
          <5>2. RecentSince(i, codes[i].at)' = RecentSince(i, codes[i].at)
            BY <2>1, <2>6, <3>1, <5>1 DEF RecentSince
          <5> QED BY <1>0, <3>1, <5>1, <5>2 DEF SendsOK
        <4>2. CASE i = n + 1
          <5> DEFINE A == RecentSince(n, codeTime)
          <5>1. \A j \in lastLogin + 1 .. n + 1 : j # n + 1 => codes'[j] = codes[j]
            BY <2>1, <2>6
          <5>2. codes'[n + 1].at + Window >= codes'[n + 1].at
            BY <1>0, <2>1 DEF OtpShapes
          <5>3. RecentSince(i, codes[i].at)' = A \cup {n + 1}
            BY <2>1, <2>6, <3>1, <4>2, <5>1, <5>2, n + 1 \in lastLogin + 1 .. n + 1
            DEF RecentSince
          <5>4. Cardinality(A) < SendLimit /\ Cardinality(A) \in Nat /\ IsFiniteSet(A)
            <6>1. n \in 0 .. n /\ A \in SUBSET (lastLogin + 1 .. n)
              BY <2>1 DEF RecentSince
            <6>2. IsFiniteSet(A) /\ Cardinality(A) \in Nat
              BY <1>0, <6>1, WindowFinite
            <6> QED BY <1>0, <3>1, <6>2 DEF SendsOK
          <5>5. Cardinality(A \cup {n + 1}) <= SendLimit
            <6>1. \/ Cardinality(A \cup {n + 1}) = Cardinality(A)
                  \/ Cardinality(A \cup {n + 1}) = Cardinality(A) + 1
              BY <5>4, FS_AddElement
            <6> QED BY <5>4, <6>1
          <5> QED BY <5>3, <5>5
        <4> QED BY <4>1, <4>2
      <3> QED BY <2>1, <3>1, <3>2, <3>3 DEF SendsOK
    <2> QED BY <2>3, <2>4, <2>5, <2>7, <2>8 DEF OtpIInv
  <1>4. ASSUME NEW v \in Verifiers, SelectCode(v)
        PROVE  OtpIInv'
    <2>1. found[v] \in 1 .. Len(codes)
      BY <1>0, <1>4 DEF SelectCode, OtpShapes
    <2>2. OtpShapes'
      BY <1>0, <1>4, <2>1 DEF SelectCode, OtpShapes
    <2>3. LocksOK'
      BY <1>0, <1>4, <2>1 DEF SelectCode, MayBeTried, OtpShapes, LocksOK
    <2> QED BY <1>0, <1>4, <2>2, <2>3
            DEF SelectCode, OtpIInv, LoginsOK, StoredOK, SendsOK, RecentSince
  <1>9. ASSUME NEW v \in Verifiers, FindCode(v)
        PROVE  OtpIInv'
    <2>1. Max(Valid) \in 1 .. Len(codes)
      BY <1>0, <1>9, SelectedValid DEF FindCode
    <2>2. OtpShapes'
      BY <1>0, <1>9, <2>1 DEF FindCode, OtpShapes
    <2>3. LocksOK'
      BY <1>0, <1>9 DEF FindCode, LocksOK
    <2> QED BY <1>0, <1>9, <2>2, <2>3
            DEF FindCode, OtpIInv, LoginsOK, StoredOK, SendsOK, RecentSince
  <1>5. ASSUME NEW v \in Verifiers, WrongCode(v)
        PROVE  OtpIInv'
    <2> DEFINE k == holds[v]
    <2>1. k \in 1 .. Len(codes) /\ codes[k] \in Code /\ codes[k].attempts < AttemptLimit
      BY <1>0, <1>5 DEF WrongCode, OtpShapes, LocksOK
    <2>2. /\ codes' \in Seq(Code) /\ Len(codes') = Len(codes)
          /\ \A i \in 1 .. Len(codes) :
               /\ codes'[i].at = codes[i].at /\ codes'[i].stored = codes[i].stored
               /\ i # k => codes'[i] = codes[i]
      <3> DEFINE x == [codes[k] EXCEPT !.attempts = codes[k].attempts + 1]
      <3>1. codes[k].attempts \in 0 .. AttemptLimit /\ codes[k].attempts + 1 \in 0 .. AttemptLimit
        BY <2>1 DEF Code
      <3>2. x \in Code /\ x.at = codes[k].at /\ x.stored = codes[k].stored
        BY <2>1, <3>1 DEF Code
      <3>3. codes' = [codes EXCEPT ![k] = x]
        BY <1>5 DEF WrongCode
      <3> HIDE DEF x
      <3>4. /\ codes' \in Seq(Code) /\ Len(codes') = Len(codes) /\ codes'[k] = x
            /\ \A i \in 1 .. Len(codes) : i # k => codes'[i] = codes[i]
        BY <1>0, <2>1, <3>2, <3>3 DEF OtpShapes
      <3> QED BY <3>2, <3>4
    <2>3. OtpShapes'
      BY <1>0, <1>5, <2>2 DEF WrongCode, OtpShapes
    <2>4. LocksOK'
      <3>1. ASSUME NEW u \in Verifiers, holds'[u] # 0
            PROVE  u # v /\ holds'[u] = holds[u] /\ holds[u] # k /\ holds[u] \in 1 .. Len(codes)
        BY <1>0, <1>5, <3>1 DEF WrongCode, OtpShapes, LocksOK
      <3> QED BY <1>0, <2>2, <3>1 DEF LocksOK
    <2>5. LoginsOK' /\ StoredOK'
      BY <1>0, <1>5, <2>2, SMTT(40) DEF WrongCode, LoginsOK, StoredOK, OtpShapes
    <2>6. /\ \A i \in 0 .. Len(codes) : \A t : RecentSince(i, t)' = RecentSince(i, t)
          /\ lastLogin' = lastLogin /\ codeTime' = codeTime
      BY <1>0, <1>5, <2>2, SMTT(40) DEF WrongCode, RecentSince, OtpShapes
    <2>7. SendsOK'
      <3>1. RecentSince(Len(codes), codeTime)' = RecentSince(Len(codes), codeTime)
        BY <1>0, <2>2, <2>6, SMTT(40) DEF OtpShapes, RecentSince
      <3>2. \A i \in lastLogin + 1 .. Len(codes) :
              RecentSince(i, codes[i].at)' = RecentSince(i, codes[i].at)
        BY <1>0, <2>2, <2>6, SMTT(40) DEF OtpShapes, RecentSince
      <3> QED BY <1>0, <1>5, <2>2, <2>6, <3>1, <3>2 DEF WrongCode, SendsOK
    <2> QED BY <2>3, <2>4, <2>5, <2>7 DEF OtpIInv
  <1>6. ASSUME NEW v \in Verifiers, RightCode(v)
        PROVE  OtpIInv'
    <2> DEFINE k == holds[v]
    <2>1. k \in 1 .. Len(codes) /\ codes[k] \in Code /\ codes[k].stored /\ logins[k] = 0
      BY <1>0, <1>6 DEF RightCode, OtpShapes, LocksOK, LoginsOK
    <2>2. /\ codes' \in Seq(Code) /\ Len(codes') = Len(codes) /\ ~codes'[k].stored
          /\ \A i \in 1 .. Len(codes) : i # k => codes'[i] = codes[i]
      <3>1. [codes[k] EXCEPT !.stored = FALSE] \in Code
        BY <2>1 DEF Code
      <3>2. codes' = [codes EXCEPT ![k] = [codes[k] EXCEPT !.stored = FALSE]]
        BY <1>6 DEF RightCode
      <3> QED BY <1>0, <2>1, <3>1, <3>2 DEF OtpShapes, Code
    <2>3. /\ logins' \in Seq(Nat) /\ Len(logins') = Len(codes) /\ logins'[k] = 1
          /\ \A i \in 1 .. Len(codes) : i # k => logins'[i] = logins[i]
      BY <1>0, <1>6, <2>1 DEF RightCode, OtpShapes
    <2>4. OtpShapes'
      BY <1>0, <1>6, <2>2, <2>3, SMTT(40) DEF RightCode, OtpShapes
    <2>5. LocksOK'
      <3>1. ASSUME NEW u \in Verifiers, holds'[u] # 0
            PROVE  u # v /\ holds'[u] = holds[u] /\ holds[u] # k /\ holds[u] \in 1 .. Len(codes)
        BY <1>0, <1>6, <3>1 DEF RightCode, OtpShapes, LocksOK
      <3> QED BY <1>0, <2>2, <3>1 DEF LocksOK
    <2>6. LoginsOK'
      BY <1>0, <2>2, <2>3 DEF LoginsOK
    <2>7. lastLogin' = Len(codes) /\ Len(codes) \in Nat
          /\ \A i \in lastLogin' + 1 .. Len(codes') : FALSE
      BY <1>0, <1>6, <2>2 DEF RightCode, OtpShapes
    <2>8. StoredOK'
      BY <2>7 DEF StoredOK
    <2>9. SendsOK'
      <3>1. RecentSince(Len(codes), codeTime)' = {}
        BY <2>7 DEF RecentSince
      <3>2. Cardinality(RecentSince(Len(codes), codeTime)') = 0
        BY <3>1, FS_EmptySet
      <3>3. ASSUME serial, NEW q \in Registrations, regPc[q] = "insert"
            PROVE  0 < SendLimit
        <4>1. Cardinality(RecentSince(Len(codes), codeTime)) < SendLimit
          BY <1>0, <3>3 DEF SendsOK
        <4>2. Cardinality(RecentSince(Len(codes), codeTime)) \in Nat
          BY <1>0, CountedRecent
        <4> QED BY <4>1, <4>2
      <3> QED BY <1>0, <1>6, <2>7, <3>2, <3>3 DEF RightCode, SendsOK
    <2> QED BY <2>4, <2>5, <2>6, <2>8, <2>9 DEF OtpIInv
  <1>7. ASSUME NEW v \in Verifiers, VerifyAborts(v)
        PROVE  OtpIInv'
    <2>1. OtpShapes' /\ LocksOK'
      BY <1>0, <1>7 DEF VerifyAborts, OtpShapes, LocksOK
    <2> QED BY <1>0, <1>7, <2>1
            DEF VerifyAborts, OtpIInv, LoginsOK, StoredOK, SendsOK, RecentSince
  <1>8. CASE UNCHANGED otpVars
    BY <1>0, <1>8
    DEF otpVars, OtpIInv, OtpShapes, LocksOK, LoginsOK, StoredOK, SendsOK, RecentSince
  <1> QED
    BY <1>1, <1>2, <1>3, <1>4, <1>5, <1>6, <1>7, <1>8, <1>9 DEF OtpNext

\* As many codes were stored as register requests have been answered.
CodesCounted ==
  LET done == {r \in Registrations : regPc[r] = "200"}
  IN  IsFiniteSet(done) /\ Len(codes) = Cardinality(done)

\* A request is answered when its code is stored.
LEMMA CodesCountedStep ==
  ASSUME OtpIInv, CodesCounted, [OtpNext]_otpVars
  PROVE  CodesCounted'
  <1> DEFINE done == {r \in Registrations : regPc[r] = "200"}
  <1>0. OtpShapes /\ IsFiniteSet(done) /\ Len(codes) = Cardinality(done)
    BY DEF OtpIInv, CodesCounted
  <1>1. ASSUME NEW r \in Registrations, CountCodes(r)
        PROVE  CodesCounted'
    <2>1. codes' = codes /\ done' = done
      BY <1>0, <1>1 DEF CountCodes, OtpShapes
    <2> QED BY <1>0, <2>1 DEF CodesCounted
  <1>2. ASSUME NEW r \in Registrations, StoreCode(r)
        PROVE  CodesCounted'
    <2>1. r \notin done /\ done' = done \cup {r}
      BY <1>0, <1>2 DEF StoreCode, OtpShapes
    <2>2. Len(codes') = Len(codes) + 1
      BY <1>0, <1>2 DEF StoreCode, OtpShapes
    <2>3. IsFiniteSet(done') /\ Cardinality(done') = Cardinality(done) + 1
      BY <1>0, <2>1, FS_AddElement
    <2> QED BY <1>0, <2>2, <2>3 DEF CodesCounted
  <1>3. ASSUME NEW v \in Verifiers, WrongCode(v) \/ RightCode(v)
        PROVE  CodesCounted'
    <2>1. Len(codes') = Len(codes) /\ regPc' = regPc
      BY <1>0, <1>3 DEF WrongCode, RightCode, OtpShapes
    <2> QED BY <1>0, <2>1 DEF CodesCounted
  <1>4. ASSUME UNCHANGED << codes, regPc >>
        PROVE  CodesCounted'
    BY <1>0, <1>4 DEF CodesCounted
  <1>5. ASSUME NEW v \in Verifiers,
               FindCode(v) \/ SelectCode(v) \/ VerifyAborts(v)
        PROVE  CodesCounted'
    BY <1>4, <1>5 DEF FindCode, SelectCode, VerifyAborts
  <1>6. CASE CodeTick \/ UNCHANGED otpVars
    BY <1>4, <1>6 DEF CodeTick, otpVars
  <1> QED BY <1>1, <1>2, <1>3, <1>5, <1>6 DEF OtpNext

(* Codes, locks and requests keep their types, attempts their limit, and every
   request that was answered has stored a code (register and verify,
   auth_router.py). *)
THEOREM OtpTypes == OtpSpec => []OtpTypeOK
  <1>1. OtpInit => CodesCounted
    <2> SUFFICES ASSUME OtpInit PROVE CodesCounted
      OBVIOUS
    <2>1. {r \in Registrations : regPc[r] = "200"} = {} /\ Len(codes) = 0
      BY DEF OtpInit
    <2> QED BY <2>1, FS_EmptySet DEF CodesCounted
  <1>2. OtpIInv /\ CodesCounted => OtpTypeOK
    <2> SUFFICES ASSUME OtpIInv, CodesCounted PROVE OtpTypeOK
      OBVIOUS
    <2>1. logins \in [1 .. Len(codes) -> Nat]
      BY DEF OtpIInv, OtpShapes
    <2> QED BY <2>1 DEF OtpIInv, OtpShapes, CodesCounted, OtpTypeOK
  <1> QED BY <1>1, <1>2, OtpInitial, OtpStep, CodesCountedStep, PTL DEF OtpSpec

\* A code logs in at most once, however many requests present it.
CodeUsedOnce == \A i \in 1 .. Len(codes) : logins[i] <= 1

(* For any number of requests and any limits: a code logs in at most once
   (verify, auth_router.py). *)
THEOREM CodesUsedOnce == OtpSpec => []CodeUsedOnce
  <1>1. OtpIInv => CodeUsedOnce
    BY DEF OtpIInv, LoginsOK, CodeUsedOnce
  <1> QED BY <1>1, OtpInitial, OtpStep, PTL DEF OtpSpec

-----------------------------------------------------------------------------
(* The refinement of OneTimeCodes.                                         *)

\* What a code looks like from outside.
Seen(c, n) == [wrong |-> c.attempts, logins |-> n]

\* The abstract codes follow the rows.
LEMMA SeenCodes ==
  ASSUME OtpShapes
  PROVE  /\ Len(SentCodes) = Len(codes)
         /\ SentCodes = [i \in 1 .. Len(codes) |-> Seen(codes[i], logins[i])]
         /\ \A i \in 1 .. Len(codes) :
              /\ SentCodes[i] = Seen(codes[i], logins[i])
              /\ SentCodes[i].wrong = codes[i].attempts
              /\ SentCodes[i].logins = logins[i]
  BY DEF SentCodes, Seen, OtpShapes

\* A code that a request holds may still be tried.
LEMMA HeldOpen ==
  ASSUME OtpIInv, NEW v \in Verifiers, holds[v] # 0
  PROVE  /\ holds[v] \in OneTime!Open /\ holds[v] \in 1 .. Len(codes)
         /\ codes[holds[v]] \in Code /\ logins[holds[v]] = 0
  <1>1. /\ OtpShapes /\ holds[v] \in 1 .. Len(codes)
        /\ codes[holds[v]].stored /\ codes[holds[v]].attempts < AttemptLimit
        /\ logins[holds[v]] = 0
    BY DEF OtpIInv, OtpShapes, LocksOK, LoginsOK
  <1>2. codes[holds[v]] \in Code
    BY <1>1 DEF OtpShapes
  <1>3. holds[v] \in OneTime!Open
    BY <1>1, SeenCodes DEF OneTime!Open
  <1> QED BY <1>1, <1>2, <1>3

\* A row that changes changes its code alone.
LEMMA SeenUpdate ==
  ASSUME OtpShapes, NEW k \in 1 .. Len(codes), NEW c, NEW n,
         codes' = [codes EXCEPT ![k] = c], logins' = [logins EXCEPT ![k] = n]
  PROVE  SentCodes' = [SentCodes EXCEPT ![k] = Seen(c, n)]
  <1>1. Len(codes') = Len(codes)
    BY DEF OtpShapes
  <1>2. SentCodes' = [i \in 1 .. Len(codes) |-> Seen(codes'[i], logins'[i])]
    BY <1>1 DEF SentCodes, Seen
  <1>3. \A i \in 1 .. Len(codes) : /\ codes'[i] = IF i = k THEN c ELSE codes[i]
                                   /\ logins'[i] = IF i = k THEN n ELSE logins[i]
    BY DEF OtpShapes
  <1>4. SentCodes = [i \in 1 .. Len(codes) |-> Seen(codes[i], logins[i])]
    BY SeenCodes
  <1>5. \A i \in 1 .. Len(codes) :
          SentCodes'[i] = [SentCodes EXCEPT ![k] = Seen(c, n)][i]
    BY <1>2, <1>3, <1>4
  <1> QED BY <1>2, <1>4, <1>5

(* For any number of requests and any limits: register and verify keep the
   promise of one-time codes.  To register is to send a code, a guess that is
   answered is a miss or the use of a code that is open, and no other step
   changes what a code allows (auth_router.py). *)
THEOREM CodesAreOneTime == OtpSpec => ImplementsOneTimeCodes
  <1>1. OtpInit => OneTime!CodesInit
    BY DEF OtpInit, OneTime!CodesInit, SentCodes
  <1>2. OtpIInv /\ [OtpNext]_otpVars => [OneTime!CodesNext]_SentCodes
    <2> SUFFICES ASSUME OtpIInv, [OtpNext]_otpVars
                 PROVE  OneTime!CodesNext \/ SentCodes' = SentCodes
      OBVIOUS
    <2>0. OtpShapes
      BY DEF OtpIInv
    <2>1. ASSUME codes' = codes, logins' = logins PROVE SentCodes' = SentCodes
      BY <2>1 DEF SentCodes
    <2>2. ASSUME NEW r \in Registrations, StoreCode(r) PROVE OneTime!CodesNext
      <3> DEFINE c == [at |-> codeTime, attempts |-> 0, stored |-> TRUE]
                 x == [wrong |-> 0, logins |-> 0]
      <3>1. /\ codes' = Append(codes, c) /\ Len(codes') = Len(codes) + 1
            /\ logins' = Append(logins, 0)
        BY <2>0, <2>2 DEF StoreCode, OtpShapes
      <3>2. Seen(c, 0) = x
        BY DEF Seen
      <3> HIDE DEF c, x
      <3>3. SentCodes' = [i \in 1 .. Len(codes) + 1 |-> Seen(codes'[i], logins'[i])]
        BY <3>1 DEF SentCodes, Seen
      <3>4. \A i \in 1 .. Len(codes) + 1 :
              /\ codes'[i] = IF i = Len(codes) + 1 THEN c ELSE codes[i]
              /\ logins'[i] = IF i = Len(codes) + 1 THEN 0 ELSE logins[i]
        BY <2>0, <3>1 DEF OtpShapes
      <3>5. Append(SentCodes, x) = [i \in 1 .. Len(codes) + 1 |->
              IF i = Len(codes) + 1 THEN x ELSE SentCodes[i]]
        <4>1. /\ SentCodes = [i \in 1 .. Len(codes) |-> Seen(codes[i], logins[i])]
              /\ Len(codes) \in Nat
          BY <2>0, SeenCodes DEF OtpShapes
        <4> QED BY <4>1
      <3>6. SentCodes' = Append(SentCodes, x)
        BY <2>0, <3>2, <3>3, <3>4, <3>5, SeenCodes DEF OtpShapes
      <3> QED BY <3>6 DEF OneTime!CodesNext, OneTime!Send, x
    <2>3. ASSUME NEW v \in Verifiers, WrongCode(v) PROVE OneTime!CodesNext
      <3> DEFINE k == holds[v]
                 c == [codes[k] EXCEPT !.attempts = @ + 1]
      <3>1. k \in OneTime!Open /\ k \in 1 .. Len(codes) /\ codes[k] \in Code
        BY <2>3, HeldOpen DEF WrongCode
      <3>2. codes' = [codes EXCEPT ![k] = c] /\ logins' = [logins EXCEPT ![k] = logins[k]]
        BY <2>0, <2>3, <3>1 DEF WrongCode, OtpShapes
      <3>3. Seen(c, logins[k]) = [Seen(codes[k], logins[k]) EXCEPT !.wrong = @ + 1]
        BY <3>1 DEF Seen, Code
      <3> HIDE DEF k, c
      <3>4. /\ SentCodes' = [SentCodes EXCEPT ![k] = Seen(c, logins[k])]
            /\ SentCodes[k] = Seen(codes[k], logins[k])
        <4>1. SentCodes' = [SentCodes EXCEPT ![k] = Seen(c, logins[k])]
          BY <2>0, <3>1, <3>2, SeenUpdate, Zenon
        <4>2. SentCodes[k] = Seen(codes[k], logins[k])
          BY <2>0, <3>1, SeenCodes
        <4> QED BY <4>1, <4>2
      <3>5. OneTime!Miss(k)
        BY <3>3, <3>4 DEF OneTime!Miss
      <3> QED BY <3>1, <3>5 DEF OneTime!CodesNext
    <2>4. ASSUME NEW v \in Verifiers, RightCode(v) PROVE OneTime!CodesNext
      <3> DEFINE k == holds[v]
                 c == [codes[k] EXCEPT !.stored = FALSE]
      <3>1. /\ k \in OneTime!Open /\ k \in 1 .. Len(codes) /\ codes[k] \in Code
            /\ logins[k] = 0
        BY <2>4, HeldOpen DEF RightCode
      <3>2. codes' = [codes EXCEPT ![k] = c] /\ logins' = [logins EXCEPT ![k] = 1]
        BY <2>4, <3>1 DEF RightCode
      <3>3. Seen(c, 1) = [Seen(codes[k], logins[k]) EXCEPT !.logins = @ + 1]
        BY <3>1 DEF Seen, Code
      <3> HIDE DEF k, c
      <3>4. /\ SentCodes' = [SentCodes EXCEPT ![k] = Seen(c, 1)]
            /\ SentCodes[k] = Seen(codes[k], logins[k])
        <4>1. SentCodes' = [SentCodes EXCEPT ![k] = Seen(c, 1)]
          BY <2>0, <3>1, <3>2, SeenUpdate, Zenon
        <4>2. SentCodes[k] = Seen(codes[k], logins[k])
          BY <2>0, <3>1, SeenCodes
        <4> QED BY <4>1, <4>2
      <3>5. OneTime!Use(k)
        BY <3>3, <3>4 DEF OneTime!Use
      <3> QED BY <3>1, <3>5 DEF OneTime!CodesNext
    <2>5. ASSUME NEW r \in Registrations, CountCodes(r)
          PROVE  codes' = codes /\ logins' = logins
      BY <2>5 DEF CountCodes
    <2>6. ASSUME NEW v \in Verifiers,
                 FindCode(v) \/ SelectCode(v) \/ VerifyAborts(v)
          PROVE  codes' = codes /\ logins' = logins
      BY <2>6 DEF FindCode, SelectCode, VerifyAborts
    <2>7. ASSUME CodeTick \/ UNCHANGED otpVars
          PROVE  codes' = codes /\ logins' = logins
      BY <2>7 DEF CodeTick, otpVars
    <2> QED BY <2>1, <2>2, <2>3, <2>4, <2>5, <2>6, <2>7 DEF OtpNext
  <1> QED BY <1>1, <1>2, OtpInitial, OtpStep, PTL
          DEF OtpSpec, ImplementsOneTimeCodes, OneTime!CodesSpec

(* For any number of requests and any limits: between two logins no window has
   more than SendLimit codes while register requests do not overlap (register,
   auth_router.py). *)
THEOREM CodesSentBounded == OtpSpec => []SendsBounded
  <1>1. OtpIInv => SendsBounded
    BY DEF OtpIInv, SendsOK, SendsBounded, RecentSince
  <1> QED BY <1>1, OtpInitial, OtpStep, PTL DEF OtpSpec

-----------------------------------------------------------------------------
(***************************************************************************)
(* OrgMembership: an organization has one owner.                           *)
(***************************************************************************)

MemberRows == [id : Nat, role : Roles \cup {"none"}]

\* A request that takes a role or a row away.
Takes(q) == orgReq[q].pc \in {"remove", "transfer"}

\* The types, with the domain of the rows and what an invite is.
MembershipShapes ==
  /\ MembershipTypeOK
  /\ member \in [Users -> MemberRows]
  /\ \A t \in Invites : invite[t] = NoInvite \/ invite[t].role \in Assignable
  /\ \A q \in OrgRequests :
       orgReq[q].pc = "accept" => invite[orgReq[q].token] # NoInvite

\* What a request holds, field by field.
RequestShapes ==
  \A q \in OrgRequests :
    /\ orgReq[q].pc \in {"idle", "accept", "provision", "remove", "transfer"}
    /\ orgReq[q].pc = "accept" => orgReq[q].token \in Invites
    /\ orgReq[q].pc = "provision" =>
                           orgReq[q].user \in Users /\ orgReq[q].role \in Assignable
    /\ orgReq[q].pc = "remove" => orgReq[q].user \in Users
    /\ orgReq[q].pc = "transfer" => orgReq[q].from \in Users /\ orgReq[q].to \in Users

\* What a removal or a transfer has read is still so.
TakesOK(q) ==
  /\ orgReq[q].pc = "remove" => member[orgReq[q].user].role # "owner"
  /\ orgReq[q].pc = "transfer" =>
       /\ orgReq[q].from # orgReq[q].to
       /\ member[orgReq[q].from].role = "owner"
       /\ orgReq[q].was # "owner"

OwnerOK ==
  /\ \E o \in Users : Owners = {o}
  /\ \A q, o \in OrgRequests : Takes(q) /\ Takes(o) => q = o
  /\ \A q \in OrgRequests : TakesOK(q)

MembershipIInv ==
  /\ MembershipShapes
  /\ ~collided /\ ~selfMade => OwnerOK

\* The roles, and what a row may hold.
LEMMA RoleFacts ==
  /\ Assignable = {"member", "admin"} /\ Roles = {"member", "admin", "owner"}
  /\ NoMember \in MemberRows /\ NoMember.role = "none"
  /\ NoRequest.pc = "idle"
  BY DEF Assignable, Roles, NoMember, MemberRows, NoRequest

\* The fields of a request.
LEMMA RequestFacts ==
  ASSUME MembershipShapes
  PROVE  RequestShapes
  <1> SUFFICES ASSUME NEW q \in OrgRequests
               PROVE  /\ orgReq[q].pc \in {"idle", "accept", "provision", "remove", "transfer"}
                      /\ orgReq[q].pc = "accept" => orgReq[q].token \in Invites
                      /\ orgReq[q].pc = "provision" =>
                           orgReq[q].user \in Users /\ orgReq[q].role \in Assignable
                      /\ orgReq[q].pc = "remove" => orgReq[q].user \in Users
                      /\ orgReq[q].pc = "transfer" => orgReq[q].from \in Users /\ orgReq[q].to \in Users
    BY DEF RequestShapes
  <1> DEFINE x == orgReq[q]
  <1>1. x \in OrgRequest \cup {NoRequest}
    BY DEF MembershipShapes, MembershipTypeOK
  <1> QED BY <1>1 DEF OrgRequest, NoRequest

\* The organization has its owner and no requests.
LEMMA MembershipInitial == MembershipInit => MembershipIInv
  <1> SUFFICES ASSUME MembershipInit PROVE MembershipIInv
    OBVIOUS
  <1>1. member \in [Users -> MemberRows]
    BY RoleFacts, FounderAssumption DEF MembershipInit, MemberRows
  <1>2. invite \in [Invites -> [for : Users, role : Assignable \cup {"none"}]]
    BY FounderAssumption DEF MembershipInit, NoInvite
  <1>3. Owners = {Founder}
    BY FounderAssumption, RoleFacts DEF MembershipInit, Owners
  <1>4. \A q \in OrgRequests : ~Takes(q) /\ TakesOK(q) /\ orgReq[q].pc # "accept"
    BY RoleFacts DEF MembershipInit, Takes, TakesOK
  <1>5. OwnerOK
    BY <1>3, <1>4, FounderAssumption DEF OwnerOK
  <1>6. MembershipTypeOK
    <2>1. \A u \in Users : member[u] = NoMember \/ member[u] \in [id : 1 .. rows, role : Roles]
      BY RoleFacts DEF MembershipInit
    <2>2. \A u, w \in Users : u # w => member[u].id # member[w].id \/ member[u].id = 0
      BY DEF MembershipInit, NoMember
    <2>3. /\ rows \in 0 .. MaxRows /\ accepted \in [Invites -> Nat]
          /\ orgReq \in [OrgRequests -> OrgRequest \cup {NoRequest}]
      BY FounderAssumption DEF MembershipInit
    <2> QED BY <1>2, <2>1, <2>2, <2>3 DEF MembershipInit, MembershipTypeOK
  <1> QED BY <1>1, <1>4, <1>5, <1>6 DEF MembershipInit, MembershipIInv, MembershipShapes

\* A request begins: unless it spoils another one, none or one takes.
LEMMA BeginOK ==
  ASSUME MembershipIInv, NEW q \in OrgRequests, NEW r \in OrgRequest, Begin(q, r),
         ~collided', ~selfMade,
         r.pc = "remove" => member[r.user].role # "owner",
         r.pc = "transfer" => /\ r.from # r.to /\ member[r.from].role = "owner"
                              /\ r.was # "owner"
  PROVE  OwnerOK'
  <1>1. /\ OwnerOK /\ orgReq' = [orgReq EXCEPT ![q] = r] /\ member' = member
        /\ \A o \in OrgRequests : ~Spoils(orgReq[o], r)
    BY DEF Begin, MembershipIInv, MembershipShapes, MembershipTypeOK
  <1>2. Owners' = Owners
    BY <1>1 DEF Owners
  <1>3. orgReq'[q] = r /\ \A o \in OrgRequests \ {q} : orgReq'[o] = orgReq[o]
    BY <1>1 DEF MembershipIInv, MembershipShapes, MembershipTypeOK
  <1>4. \A o \in OrgRequests : TakesOK(o)'
    BY <1>1, <1>3 DEF OwnerOK, TakesOK
  <1>5. \A o, p \in OrgRequests : Takes(o)' /\ Takes(p)' => o = p
    BY <1>1, <1>3 DEF OwnerOK, Takes, Spoils
  <1> QED BY <1>1, <1>2, <1>4, <1>5 DEF OwnerOK

\* A request ends and leaves the owner, and what others have read, alone.
LEMMA DoneOK ==
  ASSUME MembershipIInv, OwnerOK, NEW q \in OrgRequests, Done(q),
         \A u \in Users : member'[u].role = "owner" <=> member[u].role = "owner"
  PROVE  OwnerOK'
  <1>1. orgReq'[q] = NoRequest /\ \A o \in OrgRequests \ {q} : orgReq'[o] = orgReq[o]
    BY DEF Done, MembershipIInv, MembershipShapes, MembershipTypeOK
  <1>2. Owners' = Owners
    BY DEF Owners
  <1>3. \A o \in OrgRequests : TakesOK(o)'
    BY <1>1, RoleFacts, RequestFacts DEF OwnerOK, TakesOK, MembershipIInv, RequestShapes
  <1>4. \A o, p \in OrgRequests : Takes(o)' /\ Takes(p)' => o = p
    BY <1>1, RoleFacts DEF OwnerOK, Takes
  <1> QED BY <1>2, <1>3, <1>4 DEF OwnerOK

\* ... and the types.
LEMMA DoneShapes ==
  ASSUME MembershipShapes, NEW q \in OrgRequests, Done(q), UNCHANGED invite
  PROVE  /\ orgReq' \in [OrgRequests -> OrgRequest \cup {NoRequest}]
         /\ \A o \in OrgRequests : orgReq'[o].pc = "accept" => invite[orgReq'[o].token] # NoInvite
  BY RoleFacts DEF MembershipShapes, MembershipTypeOK, Done

\* A request begins with what the service read for it.
LEMMA BeginShapes ==
  ASSUME MembershipShapes, NEW q \in OrgRequests, NEW r \in OrgRequest, Begin(q, r),
         selfMade' \in BOOLEAN, r.pc = "accept" => invite[r.token] # NoInvite
  PROVE  MembershipShapes'
  <1>1. orgReq' \in [OrgRequests -> OrgRequest \cup {NoRequest}] /\ collided' \in BOOLEAN
    BY DEF MembershipShapes, MembershipTypeOK, Begin
  <1>2. \A o \in OrgRequests : orgReq'[o].pc = "accept" => invite[orgReq'[o].token] # NoInvite
    BY DEF MembershipShapes, MembershipTypeOK, Begin
  <1> QED BY <1>1, <1>2 DEF MembershipShapes, MembershipTypeOK, Begin

\* A new row.
LEMMA InsertShapes ==
  ASSUME MembershipShapes, NEW q \in OrgRequests, Done(q), UNCHANGED << invite, selfMade, collided >>,
         NEW u \in Users, NEW role \in Assignable, member[u] = NoMember, rows < MaxRows,
         member' = [member EXCEPT ![u] = [id |-> rows + 1, role |-> role]],
         rows' = rows + 1, accepted' \in [Invites -> Nat]
  PROVE  /\ MembershipShapes'
         /\ \A w \in Users : member'[w].role = "owner" <=> member[w].role = "owner"
  <1> USE FounderAssumption, RoleFacts
  <1>1. rows \in 0 .. MaxRows /\ rows + 1 \in 1 .. MaxRows
    BY DEF MembershipShapes, MembershipTypeOK
  <1>2. /\ member'[u] = [id |-> rows + 1, role |-> role]
        /\ \A w \in Users \ {u} : member'[w] = member[w]
    BY DEF MembershipShapes
  <1>3. \A w \in Users : member[w].id \in 0 .. rows
    BY DEF MembershipShapes, MembershipTypeOK, NoMember
  <1>4. \A w \in Users : member'[w] = NoMember \/ member'[w] \in [id : 1 .. rows', role : Roles]
    <2> SUFFICES ASSUME NEW w \in Users
                 PROVE  member'[w] = NoMember \/ member'[w] \in [id : 1 .. rows', role : Roles]
      OBVIOUS
    <2>1. CASE w = u
      BY <1>1, <1>2, <2>1
    <2>2. CASE w # u
      BY <1>1, <1>2, <2>2 DEF MembershipShapes, MembershipTypeOK
    <2> QED BY <2>1, <2>2
  <1>5. \A v, w \in Users : v # w => member'[v].id # member'[w].id \/ member'[v].id = 0
    BY <1>1, <1>2, <1>3 DEF MembershipShapes, MembershipTypeOK
  <1>6. member' \in [Users -> MemberRows]
    BY <1>1 DEF MembershipShapes, MemberRows
  <1>7. MembershipTypeOK'
    BY <1>1, <1>4, <1>5, DoneShapes DEF MembershipShapes, MembershipTypeOK
  <1>8. MembershipShapes'
    BY <1>6, <1>7, DoneShapes DEF MembershipShapes
  <1> QED BY <1>2, <1>8

\* A member's row.
LEMMA RowFacts ==
  ASSUME MembershipShapes, NEW u \in Users, member[u] # NoMember
  PROVE  member[u].id \in 1 .. MaxRows /\ member[u].role \in Roles
  <1>1. member[u] \in [id : 1 .. rows, role : Roles] /\ rows \in 0 .. MaxRows
    BY DEF MembershipShapes, MembershipTypeOK
  <1>2. member[u].id \in 1 .. rows /\ member[u].role \in Roles
    BY <1>1
  <1> QED BY <1>1, <1>2, FounderAssumption

\* Every step of the members' handlers keeps one owner.
LEMMA MembershipStep ==
  ASSUME MembershipIInv, [MembershipNext]_membershipVars
  PROVE  MembershipIInv'
  <1> USE RoleFacts
  <1>0. MembershipShapes /\ RequestShapes
    BY RequestFacts DEF MembershipIInv
  <1>1. ASSUME NEW by \in Users, NEW u \in Users, NEW t \in Invites, NEW role \in Assignable,
               CreateInvite(by, t, u, role)
        PROVE  MembershipIInv'
    <2>1. /\ invite' \in [Invites -> [for : Users, role : Assignable \cup {"none"}]]
          /\ \A s \in Invites : invite'[s] = NoInvite \/ invite'[s].role \in Assignable
          /\ \A s \in Invites : invite[s] # NoInvite => invite'[s] # NoInvite
      BY <1>0, <1>1 DEF CreateInvite, MembershipShapes, MembershipTypeOK
    <2>2. MembershipTypeOK'
      BY <1>0, <1>1, <2>1 DEF CreateInvite, MembershipShapes, MembershipTypeOK
    <2>3. MembershipShapes'
      BY <1>0, <1>1, <2>1, <2>2 DEF CreateInvite, MembershipShapes, RequestShapes
    <2> QED BY <1>1, <2>3
            DEF CreateInvite, MembershipIInv, OwnerOK, Owners, Takes, TakesOK
  <1>2. ASSUME NEW q \in OrgRequests, NEW t \in Invites, AcceptReads(q, t)
        PROVE  MembershipIInv'
    <2> DEFINE r == [pc |-> "accept", token |-> t]
    <2>1. r \in OrgRequest /\ Begin(q, r)
      BY <1>2 DEF AcceptReads, OrgRequest
    <2>2. selfMade' = selfMade /\ invite[t] # NoInvite
      BY <1>2 DEF AcceptReads
    <2>3. MembershipShapes'
      BY <1>0, <2>1, <2>2, BeginShapes DEF MembershipShapes, MembershipTypeOK
    <2> QED BY <2>1, <2>2, <2>3, BeginOK DEF MembershipIInv
  <1>3. ASSUME NEW q \in OrgRequests, NEW u \in Users, NEW role \in Assignable,
               ProvisionReads(q, u, role)
        PROVE  MembershipIInv'
    <2> DEFINE r == [pc |-> "provision", user |-> u, role |-> role]
    <2>1. r \in OrgRequest /\ Begin(q, r)
      BY <1>3 DEF ProvisionReads, OrgRequest
    <2>2. selfMade' = selfMade
      BY <1>3 DEF ProvisionReads
    <2>3. MembershipShapes'
      BY <1>0, <2>1, <2>2, BeginShapes DEF MembershipShapes, MembershipTypeOK
    <2> QED BY <2>1, <2>2, <2>3, BeginOK DEF MembershipIInv
  <1>4. ASSUME NEW q \in OrgRequests, NEW by \in Users, NEW u \in Users, RemoveReads(q, by, u)
        PROVE  MembershipIInv'
    <2> DEFINE r == [pc |-> "remove", user |-> u, row |-> member[u].id]
    <2>1. member[u].id \in 1 .. MaxRows
      BY <1>0, <1>4, RowFacts DEF RemoveReads
    <2>2. r \in OrgRequest /\ Begin(q, r)
      BY <1>4, <2>1 DEF RemoveReads, OrgRequest
    <2>3. selfMade' = selfMade /\ member[u].role # "owner"
      BY <1>4 DEF RemoveReads
    <2>4. MembershipShapes'
      BY <1>0, <2>2, <2>3, BeginShapes DEF MembershipShapes, MembershipTypeOK
    <2> QED BY <2>2, <2>3, <2>4, BeginOK DEF MembershipIInv
  <1>5. ASSUME NEW q \in OrgRequests, NEW by \in Users, NEW to \in Users, TransferReads(q, by, to)
        PROVE  MembershipIInv'
    <2> DEFINE r == [pc |-> "transfer", from |-> by, fromRow |-> member[by].id,
                     to |-> to, toRow |-> member[to].id, was |-> member[to].role]
    <2>1. /\ member[by].id \in 1 .. MaxRows /\ member[to].id \in 1 .. MaxRows
          /\ member[to].role \in Roles
      BY <1>0, <1>5, RowFacts DEF TransferReads
    <2>2. r \in OrgRequest /\ Begin(q, r)
      BY <1>5, <2>1 DEF TransferReads, OrgRequest
    <2>3. selfMade' = (selfMade \/ by = to) /\ member[by].role = "owner"
      BY <1>5 DEF TransferReads
    <2>4. selfMade' \in BOOLEAN
      BY <2>3
    <2>5. MembershipShapes'
      BY <1>0, <2>2, <2>4, BeginShapes
    <2>6. ASSUME ~collided', ~selfMade'
          PROVE  OwnerOK'
      <3>1. ~selfMade /\ by # to
        BY <2>3, <2>6
      <3>2. ~collided
        BY <2>2, <2>6 DEF Begin
      <3>3. member[to].role # "owner"
        BY <2>3, <3>1, <3>2 DEF MembershipIInv, OwnerOK, Owners
      <3> QED BY <2>2, <2>3, <2>6, <3>1, <3>3, BeginOK
    <2> QED BY <2>5, <2>6 DEF MembershipIInv
  <1>6. ASSUME NEW q \in OrgRequests, AcceptCommits(q)
        PROVE  MembershipIInv'
    <2> DEFINE t == orgReq[q].token
               u == invite[t].for
    <2>1. t \in Invites /\ u \in Users /\ invite[t].role \in Assignable
      BY <1>0, <1>6 DEF AcceptCommits, RequestShapes, MembershipShapes, MembershipTypeOK
    <2>2. Done(q) /\ UNCHANGED << invite, selfMade, collided >>
      BY <1>6 DEF AcceptCommits
    <2>3. CASE member[u] = NoMember
      <3>1. accepted' \in [Invites -> Nat]
        BY <1>0, <1>6, <2>1, <2>3 DEF AcceptCommits, MembershipShapes, MembershipTypeOK
      <3>2. /\ MembershipShapes'
            /\ \A w \in Users : member'[w].role = "owner" <=> member[w].role = "owner"
        BY <1>0, <1>6, <2>1, <2>2, <2>3, <3>1, InsertShapes DEF AcceptCommits
      <3> QED BY <2>2, <3>2, DoneOK DEF MembershipIInv
    <2>4. CASE member[u] # NoMember
      <3>1. UNCHANGED << member, rows, accepted >>
        BY <1>6, <2>4 DEF AcceptCommits
      <3>2. MembershipShapes'
        BY <1>0, <2>2, <3>1, DoneShapes DEF MembershipShapes, MembershipTypeOK
      <3> QED BY <2>2, <3>1, <3>2, DoneOK DEF MembershipIInv
    <2> QED BY <2>3, <2>4
  <1>7. ASSUME NEW q \in OrgRequests, ProvisionCommits(q)
        PROVE  MembershipIInv'
    <2> DEFINE u == orgReq[q].user
    <2>1. u \in Users /\ orgReq[q].role \in Assignable
      BY <1>0, <1>7 DEF ProvisionCommits, RequestShapes
    <2>2. Done(q) /\ UNCHANGED << invite, accepted, selfMade, collided >>
      BY <1>7 DEF ProvisionCommits
    <2>3. CASE member[u] = NoMember
      <3>1. accepted' \in [Invites -> Nat]
        BY <1>0, <2>2 DEF MembershipShapes, MembershipTypeOK
      <3>2. /\ MembershipShapes'
            /\ \A w \in Users : member'[w].role = "owner" <=> member[w].role = "owner"
        BY <1>0, <1>7, <2>1, <2>2, <2>3, <3>1, InsertShapes DEF ProvisionCommits
      <3> QED BY <2>2, <3>2, DoneOK DEF MembershipIInv
    <2>4. CASE member[u] # NoMember
      <3>1. UNCHANGED << member, rows, accepted >>
        BY <1>7, <2>4 DEF ProvisionCommits
      <3>2. MembershipShapes'
        BY <1>0, <2>2, <3>1, DoneShapes DEF MembershipShapes, MembershipTypeOK
      <3> QED BY <2>2, <3>1, <3>2, DoneOK DEF MembershipIInv
    <2> QED BY <2>3, <2>4
  <1>8. ASSUME NEW q \in OrgRequests, RemoveCommits(q)
        PROVE  MembershipIInv'
    <2> DEFINE u == orgReq[q].user
    <2>1. u \in Users /\ orgReq[q].pc = "remove"
      BY <1>0, <1>8 DEF RemoveCommits, RequestShapes
    <2>2. Done(q) /\ UNCHANGED << rows, invite, accepted, selfMade, collided >>
      BY <1>8 DEF RemoveCommits
    <2>3. /\ member'[u] \in {member[u], NoMember}
          /\ \A w \in Users \ {u} : member'[w] = member[w]
          /\ member' \in [Users -> MemberRows]
      BY <1>0, <1>8, <2>1 DEF RemoveCommits, MembershipShapes
    <2>4. MembershipTypeOK'
      <3>1. \A w \in Users : member'[w] = member[w] \/ member'[w] = NoMember
        BY <2>3
      <3>2. \A w \in Users : member'[w] = NoMember \/ member'[w] \in [id : 1 .. rows', role : Roles]
        BY <1>0, <2>2, <3>1 DEF MembershipShapes, MembershipTypeOK
      <3>3. \A v, w \in Users : v # w => member'[v].id # member'[w].id \/ member'[v].id = 0
        BY <1>0, <3>1 DEF MembershipShapes, MembershipTypeOK, NoMember
      <3> QED BY <1>0, <2>2, <3>2, <3>3, DoneShapes DEF MembershipShapes, MembershipTypeOK
    <2>5. MembershipShapes'
      BY <1>0, <2>2, <2>3, <2>4, DoneShapes DEF MembershipShapes
    <2>6. ASSUME ~collided, ~selfMade
          PROVE  OwnerOK'
      <3>1. OwnerOK /\ member[u].role # "owner"
        BY <2>1, <2>6 DEF MembershipIInv, OwnerOK, TakesOK
      <3>2. \A w \in Users : member'[w].role = "owner" <=> member[w].role = "owner"
        BY <2>3, <3>1
      <3> QED BY <2>2, <3>1, <3>2, DoneOK
    <2> QED BY <2>2, <2>5, <2>6 DEF MembershipIInv
  <1>9. ASSUME NEW q \in OrgRequests, TransferCommits(q)
        PROVE  MembershipIInv'
    <2> DEFINE r == orgReq[q]
    <2>1. r.from \in Users /\ r.to \in Users /\ r.pc = "transfer"
      BY <1>0, <1>9 DEF TransferCommits, RequestShapes
    <2>2. Done(q) /\ UNCHANGED << rows, invite, accepted, selfMade, collided >>
      BY <1>9 DEF TransferCommits
    <2>3. CASE ~(member[r.from].id = r.fromRow /\ member[r.to].id = r.toRow)
      <3>1. UNCHANGED member
        BY <1>9, <2>3 DEF TransferCommits
      <3>2. MembershipShapes'
        BY <1>0, <2>2, <3>1, DoneShapes DEF MembershipShapes, MembershipTypeOK
      <3> QED BY <2>2, <3>1, <3>2, DoneOK DEF MembershipIInv
    <2>4. CASE member[r.from].id = r.fromRow /\ member[r.to].id = r.toRow
      <3>1. member' = [member EXCEPT
                ![r.to].role = IF r.was = "owner" THEN @ ELSE "owner",
                ![r.from].role = "admin"]
        BY <1>9, <2>4 DEF TransferCommits
      <3>2. /\ member' \in [Users -> MemberRows]
            /\ \A w \in Users : member'[w].id = member[w].id
            /\ \A w \in Users \ {r.from, r.to} : member'[w] = member[w]
            /\ member'[r.from].role = "admin"
            /\ r.to # r.from /\ r.was # "owner" => member'[r.to].role = "owner"
            /\ member'[r.to].role \in {member[r.to].role, "owner", "admin"}
        BY <1>0, <2>1, <3>1, ZenonT(60) DEF MembershipShapes, MemberRows
      <3>3. /\ r.fromRow \in 1 .. MaxRows /\ r.toRow \in 1 .. MaxRows
        BY <1>0, <2>1 DEF MembershipShapes, MembershipTypeOK, OrgRequest, NoRequest
      <3>4. MembershipTypeOK'
        <4>1. /\ member[r.from] \in [id : 1 .. rows, role : Roles]
              /\ member[r.to] \in [id : 1 .. rows, role : Roles]
          BY <1>0, <2>1, <2>4, <3>3 DEF MembershipShapes, MembershipTypeOK, NoMember
        <4>2. \A w \in Users : member'[w] = NoMember \/ member'[w] \in [id : 1 .. rows, role : Roles]
          <5> SUFFICES ASSUME NEW w \in {r.from, r.to}
                       PROVE  member'[w] \in [id : 1 .. rows, role : Roles]
            BY <1>0, <3>2 DEF MembershipShapes, MembershipTypeOK
          <5>1. member'[w] \in MemberRows /\ member'[w].id \in 1 .. rows /\ member'[w].role \in Roles
            BY <2>1, <3>2, <4>1
          <5> QED BY <5>1 DEF MemberRows
        <4>3. \A v, w \in Users : v # w => member'[v].id # member'[w].id \/ member'[v].id = 0
          BY <1>0, <3>2 DEF MembershipShapes, MembershipTypeOK
        <4> QED BY <1>0, <2>2, <4>2, <4>3, DoneShapes DEF MembershipShapes, MembershipTypeOK
      <3>5. MembershipShapes'
        BY <1>0, <2>2, <3>2, <3>4, DoneShapes DEF MembershipShapes
      <3>6. ASSUME ~collided, ~selfMade
            PROVE  OwnerOK'
        <4>1. OwnerOK /\ r.from # r.to /\ member[r.from].role = "owner" /\ r.was # "owner"
          BY <2>1, <3>6 DEF MembershipIInv, OwnerOK, TakesOK
        <4>2. Owners = {r.from}
          BY <2>1, <4>1 DEF OwnerOK, Owners
        <4>3. Owners' = {r.to}
          BY <2>1, <3>2, <4>1, <4>2 DEF Owners
        <4>4. \A o \in OrgRequests : ~Takes(o)'
          <5>1. orgReq'[q] = NoRequest /\ \A o \in OrgRequests \ {q} : orgReq'[o] = orgReq[o]
            BY <1>0, <2>2 DEF Done, MembershipShapes, MembershipTypeOK
          <5>2. Takes(q)
            BY <2>1 DEF Takes
          <5> QED BY <4>1, <5>1, <5>2 DEF OwnerOK, Takes
        <4> QED BY <2>1, <4>3, <4>4 DEF OwnerOK, Takes, TakesOK
      <3> QED BY <2>2, <3>5, <3>6 DEF MembershipIInv
    <2> QED BY <2>3, <2>4
  <1>10. ASSUME NEW q \in OrgRequests, OrgRequestFails(q)
         PROVE  MembershipIInv'
    <2>1. Done(q) /\ UNCHANGED << member, rows, invite, accepted, selfMade, collided >>
      BY <1>10 DEF OrgRequestFails
    <2>2. MembershipShapes'
      BY <1>0, <2>1, DoneShapes DEF MembershipShapes, MembershipTypeOK
    <2> QED BY <2>1, <2>2, DoneOK DEF MembershipIInv
  <1>11. CASE UNCHANGED membershipVars
    BY <1>11 DEF membershipVars, MembershipIInv, MembershipShapes, MembershipTypeOK, OwnerOK,
                 Owners, Takes, TakesOK
  <1> QED
    BY <1>1, <1>2, <1>3, <1>4, <1>5, <1>6, <1>7, <1>8, <1>9, <1>10, <1>11 DEF MembershipNext

(* The rows, invites and requests keep their types; no two users share a row
   (ee/routers/orgs.py, saml.py). *)
THEOREM MembershipTypes == MembershipSpec => []MembershipTypeOK
  <1>1. MembershipIInv => MembershipTypeOK
    BY DEF MembershipIInv, MembershipShapes
  <1> QED BY <1>1, MembershipInitial, MembershipStep, PTL DEF MembershipSpec

(* For any number of users, invites and requests: the organization has one
   owner, unless transfers and removals overlap or an owner transfers to
   himself (transfer_ownership, orgs.py). *)
THEOREM OwnerUnique == MembershipSpec => []OneOwner
  <1>1. MembershipIInv => OneOwner
    BY FS_Singleton DEF MembershipIInv, OwnerOK, OneOwner
  <1> QED BY <1>1, MembershipInitial, MembershipStep, PTL DEF MembershipSpec

-----------------------------------------------------------------------------
(***************************************************************************)
(* SeatBilling: an organization has one subscription, and is billed for the*)
(* members it has.                                                         *)
(***************************************************************************)

SeatPcs == {"idle", "count", "lock", "ensure", "update", "cancel", "commit"}
SeatRequestRecords ==
  [pc : SeatPcs, subscribe : BOOLEAN, n : Quantity, seat : SeatRows]

\* What the transaction that has the row locked has made of it.
RowOK(r) ==
  /\ r.seat.row = TRUE /\ r.seat.sub \in 0 .. Len(stripe)
  /\ r.pc = "ensure" => r.seat.sub = 0
  /\ r.pc \in {"update", "cancel"} => r.seat.sub # 0 /\ ~r.subscribe
  /\ ~r.subscribe => r.seat.count = r.n
  /\ r.pc = "cancel" => r.n = 0
  /\ r.pc = "commit" /\ r.seat.sub = 0 => r.seat.outOfSync = TRUE \/ r.n = 0

RowsOK == \A q \in SeatRequests : HasLock(q) => RowOK(seatReq[q])

\* The lock of the row.
OneLock == \A p, q \in SeatRequests : HasLock(p) /\ HasLock(q) => p = q

\* A row that a webhook has read is still there, and its event exists.
HooksOK ==
  \A h \in Hooks :
    /\ hook[h] = NoHook \/ hook[h].ev # 0
    /\ hook[h].seen.sub # 0 => hook[h].seen.row
    /\ hook[h].seen.row => seat.row

\* The live subscriptions, those that strayed aside, are the one of row x.
LiveIn(x) == \A s \in 1 .. Len(stripe) \ strayed : stripe[s] # Canceled <=> s = x.sub

\* They are the one of the row as its transaction sees it.
SubsOK ==
  /\ NobodyHasLock => LiveIn(seat)
  /\ \A q \in SeatRequests : HasLock(q) => LiveIn(seatReq[q].seat)

SeatSafe == SeatTypeOK /\ RowsOK /\ OneLock /\ HooksOK /\ SubsOK

-----------------------------------------------------------------------------
\* The values that the billing starts with.
LEMMA SeatFacts ==
  /\ Quantity \subseteq Nat /\ 0 \in Quantity /\ 1 \in Quantity
  /\ Canceled \in Nat /\ Canceled \notin Quantity
  /\ MaxSubs \in Nat /\ 0 \in 0 .. MaxSubs
  /\ NoSeat \in SeatRows /\ NoSeat.sub = 0 /\ ~NoSeat.row /\ NoSeat.count = 0
  /\ NotServing \in SeatRequestRecords /\ NotServing.pc = "idle"
  /\ NoHook.ev = 0 /\ NoHook.seen = NoSeat
  <1>1. /\ Quantity \subseteq Nat /\ 0 \in Quantity /\ 1 \in Quantity
        /\ Canceled \in Nat /\ Canceled \notin Quantity
        /\ MaxSubs \in Nat /\ 0 \in 0 .. MaxSubs
    BY SeatAssumption DEF Quantity, Canceled
  <1>2. NoSeat \in SeatRows /\ NoSeat.sub = 0 /\ ~NoSeat.row /\ NoSeat.count = 0
    BY <1>1 DEF NoSeat, SeatRows
  <1>3. NotServing \in SeatRequestRecords /\ NotServing.pc = "idle"
    BY <1>1, <1>2 DEF NotServing, SeatRequestRecords, SeatPcs
  <1> QED BY <1>1, <1>2, <1>3 DEF NoHook

\* The fields of a row.
LEMMA SeatFields ==
  ASSUME NEW x \in SeatRows
  PROVE  /\ x.row \in BOOLEAN /\ x.count \in Quantity /\ x.sub \in 0 .. MaxSubs
         /\ x.outOfSync \in BOOLEAN
  BY DEF SeatRows

\* The fields of a request.
LEMMA RequestFields ==
  ASSUME SeatTypeOK, NEW q \in SeatRequests
  PROVE  /\ seatReq[q] \in SeatRequestRecords
         /\ seatReq[q].pc \in SeatPcs /\ seatReq[q].subscribe \in BOOLEAN
         /\ seatReq[q].n \in Quantity /\ seatReq[q].seat \in SeatRows
  BY DEF SeatTypeOK, SeatRequestRecords, SeatPcs

\* The place a request goes to with the row.
LEMMA FirstCallFacts ==
  ASSUME NEW subscribe \in BOOLEAN, NEW n \in Quantity, NEW x \in SeatRows
  PROVE  /\ FirstCall(subscribe, n, x) \in {"ensure", "update", "cancel", "commit"}
         /\ FirstCall(subscribe, n, x) = "ensure" => x.sub = 0
         /\ FirstCall(subscribe, n, x) # "ensure" => x.sub # 0
         /\ FirstCall(subscribe, n, x) \in {"update", "cancel"} => ~subscribe
         /\ FirstCall(subscribe, n, x) = "commit" => subscribe
         /\ FirstCall(subscribe, n, x) = "cancel" => n = 0
  <1>1. CASE x.sub = 0
    <2>1. FirstCall(subscribe, n, x) = "ensure"
      BY <1>1 DEF FirstCall
    <2> QED BY <1>1, <2>1
  <1>2. CASE x.sub # 0 /\ subscribe
    <2>1. FirstCall(subscribe, n, x) = "commit"
      BY <1>2 DEF FirstCall
    <2> QED BY <1>2, <2>1
  <1>3. CASE x.sub # 0 /\ ~subscribe /\ n = 0
    <2>1. FirstCall(subscribe, n, x) = "cancel"
      BY <1>3 DEF FirstCall
    <2> QED BY <1>3, <2>1
  <1>4. CASE x.sub # 0 /\ ~subscribe /\ n # 0
    <2>1. FirstCall(subscribe, n, x) = "update"
      BY <1>4 DEF FirstCall
    <2> QED BY <1>4, <2>1
  <1> QED BY <1>1, <1>2, <1>3, <1>4

\* A request and its row after the row is locked.
LEMMA LockFacts ==
  ASSUME SeatTypeOK, NEW q \in SeatRequests, Lock(q)
  PROVE  /\ seatReq' \in [SeatRequests -> SeatRequestRecords]
         /\ \A o \in SeatRequests \ {q} : seatReq'[o] = seatReq[o]
         /\ seatReq'[q].pc = FirstCall(seatReq[q].subscribe, seatReq[q].n, seat)
         /\ seatReq'[q].subscribe = seatReq[q].subscribe
         /\ seatReq'[q].n = seatReq[q].n
         /\ seatReq'[q].seat.row
         /\ seatReq'[q].seat.sub = seat.sub
         /\ seatReq'[q].seat.outOfSync = seat.outOfSync
         /\ seatReq'[q].seat.count =
              IF seatReq[q].subscribe THEN seat.count ELSE seatReq[q].n
  <1> DEFINE r == seatReq[q]
             mine == [seat EXCEPT !.row = TRUE,
                                  !.count = IF r.subscribe THEN @ ELSE r.n]
             pc == FirstCall(r.subscribe, r.n, seat)
  <1>1. seat \in SeatRows
    BY DEF SeatTypeOK
  <1>2. /\ mine \in SeatRows /\ mine.row /\ mine.sub = seat.sub
        /\ mine.outOfSync = seat.outOfSync
        /\ mine.count = IF r.subscribe THEN seat.count ELSE r.n
    BY <1>1, RequestFields DEF SeatRows
  <1>3. pc \in SeatPcs
    BY <1>1, RequestFields, FirstCallFacts DEF SeatPcs
  <1>4. seatReq' = [seatReq EXCEPT ![q].pc = pc, ![q].seat = mine]
    BY DEF Lock
  <1>5. seatReq \in [SeatRequests -> SeatRequestRecords]
    BY DEF SeatTypeOK, SeatRequestRecords, SeatPcs
  <1> HIDE DEF mine, pc
  <1>6. /\ seatReq' \in [SeatRequests -> SeatRequestRecords]
        /\ seatReq'[q].pc = pc /\ seatReq'[q].seat = mine
        /\ seatReq'[q].subscribe = r.subscribe /\ seatReq'[q].n = r.n
        /\ \A o \in SeatRequests \ {q} : seatReq'[o] = seatReq[o]
    BY <1>2, <1>3, <1>4, <1>5 DEF SeatRequestRecords
  <1> QED BY <1>2, <1>6 DEF pc

\* A request and its row after a call of Stripe.
LEMMA AfterFacts ==
  ASSUME SeatTypeOK, NEW q \in SeatRequests, NEW pc \in SeatPcs, NEW row \in SeatRows,
         NEW how \in Outcomes, After(q, pc, row, how)
  PROVE  /\ seatReq' \in [SeatRequests -> SeatRequestRecords]
         /\ \A o \in SeatRequests \ {q} : seatReq'[o] = seatReq[o]
         /\ seatReq'[q].subscribe = seatReq[q].subscribe
         /\ seatReq'[q].n = seatReq[q].n
         /\ how = "ok" => seatReq'[q].pc = pc /\ seatReq'[q].seat = row
         /\ how # "ok" =>
              /\ seatReq'[q].pc = "commit"
              /\ seatReq'[q].seat.outOfSync
              /\ seatReq'[q].seat.row = seatReq[q].seat.row
              /\ seatReq'[q].seat.sub = seatReq[q].seat.sub
              /\ seatReq'[q].seat.count = seatReq[q].seat.count
  <1> DEFINE r == seatReq[q]
             bad == [r.seat EXCEPT !.outOfSync = TRUE]
             next == IF how = "ok" THEN pc ELSE "commit"
             x == IF how = "ok" THEN row ELSE bad
  <1>1. r.seat \in SeatRows
    BY RequestFields
  <1>2. /\ bad \in SeatRows /\ bad.outOfSync /\ bad.row = r.seat.row
        /\ bad.sub = r.seat.sub /\ bad.count = r.seat.count
    BY <1>1 DEF SeatRows
  <1>3. seatReq \in [SeatRequests -> SeatRequestRecords]
    BY DEF SeatTypeOK, SeatRequestRecords, SeatPcs
  <1>4. seatReq' = [seatReq EXCEPT ![q].pc = next, ![q].seat = x]
    BY <1>3 DEF After, SeatRequestRecords
  <1>5. next \in SeatPcs /\ x \in SeatRows
    BY <1>2 DEF SeatPcs
  <1> HIDE DEF bad, next, x
  <1>6. /\ seatReq' \in [SeatRequests -> SeatRequestRecords]
        /\ seatReq'[q].pc = next /\ seatReq'[q].seat = x
        /\ seatReq'[q].subscribe = r.subscribe /\ seatReq'[q].n = r.n
        /\ \A o \in SeatRequests \ {q} : seatReq'[o] = seatReq[o]
    BY <1>3, <1>4, <1>5 DEF SeatRequestRecords
  <1> QED BY <1>2, <1>6 DEF next, x

-----------------------------------------------------------------------------
\* Nothing is subscribed and nobody has the lock.
LEMMA SeatInitial == SeatInit => SeatSafe
  <1> SUFFICES ASSUME SeatInit PROVE SeatSafe
    OBVIOUS
  <1> USE SeatFacts
  <1>1. seatReq \in [SeatRequests -> SeatRequestRecords]
    BY DEF SeatInit
  <1>2. hook \in [Hooks -> [ev : 0 .. Len(stripeEvents), seen : SeatRows]]
    BY DEF SeatInit, NoHook
  <1>3. {calm, unbilled} \subseteq BOOLEAN
    BY DEF SeatInit
  <1>4. SeatTypeOK
    BY <1>1, <1>2, <1>3, SeatAssumption
       DEF SeatInit, SeatTypeOK, SeatRequestRecords, SeatPcs
  <1>5. \A q \in SeatRequests : ~HasLock(q)
    BY DEF SeatInit, HasLock
  <1>6. HooksOK
    BY DEF SeatInit, HooksOK
  <1>7. SubsOK
    BY DEF SeatInit, SubsOK, LiveIn, HasLock
  <1> QED BY <1>4, <1>5, <1>6, <1>7 DEF SeatSafe, RowsOK, OneLock

\* The types, from what a step changes.
LEMMA SeatTypes ==
  ASSUME SeatTypeOK,
         members' \in Quantity, seat' \in SeatRows, seat'.row \/ seat' = NoSeat,
         seat'.sub \in 0 .. Len(stripe'),
         stripe' \in Seq(Quantity \cup {Canceled}), Len(stripe') <= MaxSubs,
         stripeEvents' \in Seq([sub : 1 .. MaxSubs, quantity : Quantity]),
         processed' \subseteq 1 .. Len(stripeEvents'),
         seatReq' \in [SeatRequests -> SeatRequestRecords],
         hook' \in [Hooks -> [ev : 0 .. Len(stripeEvents'), seen : SeatRows]],
         served' \in 0 .. MaxServed,
         strayed' \subseteq 1 .. Len(stripe'), calm' \in BOOLEAN, unbilled' \in BOOLEAN
  PROVE  SeatTypeOK'
  <1>1. {calm', unbilled'} \subseteq BOOLEAN
    BY Zenon
  <1> QED BY <1>1 DEF SeatTypeOK, SeatRequestRecords, SeatPcs

\* The same for variables that a step leaves alone.
LEMMA SeatHas ==
  ASSUME SeatTypeOK
  PROVE  /\ members \in Quantity /\ seat \in SeatRows /\ (seat.row \/ seat = NoSeat)
         /\ seat.sub \in 0 .. Len(stripe)
         /\ stripe \in Seq(Quantity \cup {Canceled}) /\ Len(stripe) <= MaxSubs
         /\ stripeEvents \in Seq([sub : 1 .. MaxSubs, quantity : Quantity])
         /\ processed \subseteq 1 .. Len(stripeEvents)
         /\ seatReq \in [SeatRequests -> SeatRequestRecords]
         /\ hook \in [Hooks -> [ev : 0 .. Len(stripeEvents), seen : SeatRows]]
         /\ served \in 0 .. MaxServed
         /\ strayed \subseteq 1 .. Len(stripe)
         /\ calm \in BOOLEAN /\ unbilled \in BOOLEAN
  <1>1. {calm, unbilled} \subseteq BOOLEAN
    BY DEF SeatTypeOK
  <1>2. calm \in BOOLEAN /\ unbilled \in BOOLEAN
    BY <1>1, Zenon
  <1> QED BY <1>2 DEF SeatTypeOK, SeatRequestRecords, SeatPcs

\* A request that begins.
LEMMA ServeSafe ==
  ASSUME SeatSafe, NEW q \in SeatRequests, NEW r \in SeatRequestRecords,
         r.pc = "count", Serve(q, r), members' \in Quantity
  PROVE  SeatSafe'
  <1>1. SeatTypeOK
    BY DEF SeatSafe
  <1>2. /\ seatReq' \in [SeatRequests -> SeatRequestRecords]
        /\ seatReq'[q] = r /\ \A o \in SeatRequests \ {q} : seatReq'[o] = seatReq[o]
        /\ ~HasLock(q) /\ ~HasLock(q)'
    BY <1>1, SeatHas, SeatFacts DEF Serve, HasLock
  <1>3. served' \in 0 .. MaxServed
    BY <1>1, SeatHas, SeatAssumption DEF Serve
  <1>4. SeatTypeOK'
    BY <1>1, <1>2, <1>3, SeatHas, SeatTypes DEF Serve
  <1>5. \A o \in SeatRequests : HasLock(o)' <=> HasLock(o)
    BY <1>2 DEF HasLock
  <1>6. RowsOK' /\ OneLock'
    BY <1>2, <1>5 DEF SeatSafe, RowsOK, OneLock, RowOK, Serve
  <1>7. HooksOK' /\ SubsOK'
    BY <1>2, <1>5 DEF SeatSafe, HooksOK, SubsOK, LiveIn, NobodyHasLock, Serve
  <1> QED BY <1>4, <1>6, <1>7 DEF SeatSafe

\* The request counts the members before it takes the lock.
LEMMA CountSafe ==
  ASSUME SeatSafe, NEW q \in SeatRequests, CountMembers(q)
  PROVE  SeatSafe'
  <1>1. SeatTypeOK
    BY DEF SeatSafe
  <1>2. /\ seatReq' \in [SeatRequests -> SeatRequestRecords]
        /\ seatReq'[q].pc = "lock" /\ seatReq[q].pc = "count"
        /\ \A o \in SeatRequests \ {q} : seatReq'[o] = seatReq[o]
    BY <1>1, SeatHas, ZenonT(60) DEF CountMembers, SeatRequestRecords, SeatPcs
  <1>3. \A o \in SeatRequests : HasLock(o)' <=> HasLock(o)
    BY <1>2 DEF HasLock
  <1>4. ~HasLock(q)
    BY <1>2 DEF HasLock
  <1>5. SeatTypeOK'
    BY <1>1, <1>2, SeatHas, SeatTypes DEF CountMembers
  <1>6. RowsOK' /\ OneLock'
    BY <1>2, <1>3, <1>4 DEF SeatSafe, RowsOK, OneLock, RowOK, CountMembers
  <1>7. HooksOK' /\ SubsOK'
    BY <1>2, <1>3, <1>4 DEF SeatSafe, HooksOK, SubsOK, LiveIn, NobodyHasLock, CountMembers
  <1> QED BY <1>5, <1>6, <1>7 DEF SeatSafe

\* The row's lock goes to one request.
LEMMA LockSafe ==
  ASSUME SeatSafe, NEW q \in SeatRequests, LockSeat(q)
  PROVE  SeatSafe'
  <1>1. SeatTypeOK
    BY DEF SeatSafe
  <1> DEFINE r == seatReq[q]
  <1>2. /\ seatReq' \in [SeatRequests -> SeatRequestRecords]
        /\ \A o \in SeatRequests \ {q} : seatReq'[o] = seatReq[o]
        /\ seatReq'[q].pc = FirstCall(r.subscribe, r.n, seat)
        /\ seatReq'[q].subscribe = r.subscribe /\ seatReq'[q].n = r.n
        /\ seatReq'[q].seat.row /\ seatReq'[q].seat.sub = seat.sub
        /\ seatReq'[q].seat.count = IF r.subscribe THEN seat.count ELSE r.n
    BY <1>1, LockFacts DEF LockSeat
  <1>3. /\ r.subscribe \in BOOLEAN /\ r.n \in Quantity /\ seat \in SeatRows
        /\ seat.sub \in 0 .. Len(stripe) /\ calm \in BOOLEAN
    BY <1>1, RequestFields, SeatHas
  <1>4. \A o \in SeatRequests : ~HasLock(o)
    BY DEF LockSeat, NobodyHasLock
  <1>5. HasLock(q)' /\ \A o \in SeatRequests \ {q} : ~HasLock(o)'
    BY <1>2, <1>3, <1>4, FirstCallFacts DEF HasLock
  <1>6. UNCHANGED << members, seat, stripe, stripeEvents, processed, hook,
                     served, strayed, unbilled >>
    BY DEF LockSeat
  <1>7. calm' \in BOOLEAN
    BY <1>3, Zenon DEF LockSeat
  <1>8. SeatTypeOK'
    BY <1>1, <1>2, <1>6, <1>7, SeatHas, SeatTypes
  <1>9. RowOK(seatReq[q])'
    BY <1>2, <1>3, <1>6, FirstCallFacts DEF RowOK
  <1>10. RowsOK' /\ OneLock'
    BY <1>5, <1>9 DEF RowsOK, OneLock
  <1>11. HooksOK'
    BY <1>6 DEF SeatSafe, HooksOK
  <1>12. SubsOK'
    BY <1>2, <1>4, <1>5, <1>6 DEF SeatSafe, SubsOK, LiveIn, NobodyHasLock
  <1> QED BY <1>8, <1>10, <1>11, <1>12 DEF SeatSafe

\* A call of Stripe by the request that has the lock.
LEMMA AfterSafe ==
  ASSUME SeatSafe, NEW q \in SeatRequests, NEW pc \in {"update", "commit"},
         NEW row \in SeatRows, NEW how \in Outcomes, HasLock(q), After(q, pc, row, how),
         stripe' \in Seq(Quantity \cup {Canceled}),
         Len(stripe) <= Len(stripe'), Len(stripe') <= MaxSubs,
         stripeEvents' \in Seq([sub : 1 .. MaxSubs, quantity : Quantity]),
         Len(stripeEvents) <= Len(stripeEvents'),
         row.row = TRUE, row.sub \in 0 .. Len(stripe'),
         pc = "update" => row.sub # 0 /\ ~seatReq[q].subscribe,
         ~seatReq[q].subscribe => row.count = seatReq[q].n,
         how = "ok" /\ row.sub = 0 => seatReq[q].n = 0,
         strayed' \subseteq 1 .. Len(stripe'),
         \A s \in 1 .. Len(stripe') \ strayed' : stripe'[s] # Canceled <=>
            s = IF how = "ok" THEN row.sub ELSE seatReq[q].seat.sub
  PROVE  SeatSafe'
  <1>1. SeatTypeOK /\ Len(stripe) \in Nat /\ Len(stripe') \in Nat
    BY SeatHas DEF SeatSafe
  <1>2. pc \in SeatPcs
    BY DEF SeatPcs
  <1>3. /\ seatReq' \in [SeatRequests -> SeatRequestRecords]
        /\ \A o \in SeatRequests \ {q} : seatReq'[o] = seatReq[o]
        /\ seatReq'[q].subscribe = seatReq[q].subscribe
        /\ seatReq'[q].n = seatReq[q].n
        /\ how = "ok" => seatReq'[q].pc = pc /\ seatReq'[q].seat = row
        /\ how # "ok" =>
             /\ seatReq'[q].pc = "commit"
             /\ seatReq'[q].seat.outOfSync = TRUE
             /\ seatReq'[q].seat.row = seatReq[q].seat.row
             /\ seatReq'[q].seat.sub = seatReq[q].seat.sub
             /\ seatReq'[q].seat.count = seatReq[q].seat.count
    BY <1>1, <1>2, AfterFacts
  <1>4. /\ UNCHANGED << members, seat, processed, hook, served, calm, unbilled >>
    BY DEF After
  <1>6. HasLock(q)' /\ \A o \in SeatRequests \ {q} : ~HasLock(o) /\ ~HasLock(o)'
    BY <1>3 DEF HasLock, SeatSafe, OneLock
  <1>7. /\ hook' \in [Hooks -> [ev : 0 .. Len(stripeEvents'), seen : SeatRows]]
        /\ processed' \subseteq 1 .. Len(stripeEvents')
        /\ seat'.sub \in 0 .. Len(stripe')
    <2>1. 0 .. Len(stripeEvents) \subseteq 0 .. Len(stripeEvents')
      BY <1>1, SeatHas
    <2>2. [ev : 0 .. Len(stripeEvents), seen : SeatRows]
            \subseteq [ev : 0 .. Len(stripeEvents'), seen : SeatRows]
      BY <2>1
    <2> QED BY <1>1, <1>4, <2>1, <2>2, SeatHas
  <1>8. SeatTypeOK'
    BY <1>1, <1>3, <1>4, <1>7, SeatHas, SeatTypes
  <1>9. RowOK(seatReq[q])'
    <2>1. RowOK(seatReq[q])
      BY DEF SeatSafe, RowsOK
    <2>2. CASE how = "ok"
      BY <1>3, <2>2 DEF RowOK
    <2>3. CASE how # "ok"
      BY <1>1, <1>3, <2>1, <2>3 DEF RowOK
    <2> QED BY <2>2, <2>3
  <1>10. RowsOK' /\ OneLock'
    BY <1>6, <1>9 DEF RowsOK, OneLock
  <1>11. HooksOK'
    BY <1>4 DEF SeatSafe, HooksOK
  <1>12. SubsOK'
    BY <1>3, <1>6 DEF SubsOK, LiveIn, NobodyHasLock
  <1> QED BY <1>8, <1>10, <1>11, <1>12 DEF SeatSafe

\* A subscription is made only under the lock, for a row without one.
LEMMA EnsureSafe ==
  ASSUME SeatSafe, NEW q \in SeatRequests, NEW how \in Outcomes, EnsureSubscription(q, how)
  PROVE  SeatSafe'
  <1> DEFINE r == seatReq[q]
             row == [r.seat EXCEPT !.sub = Len(stripe) + 1]
             pc == IF r.subscribe THEN "commit" ELSE "update"
  <1>1. SeatTypeOK /\ HasLock(q) /\ RowOK(r) /\ r.seat \in SeatRows /\ r.pc = "ensure"
    BY RequestFields DEF SeatSafe, EnsureSubscription, HasLock, RowsOK
  <1>2. /\ stripe \in Seq(Quantity \cup {Canceled}) /\ Len(stripe) <= MaxSubs
        /\ stripeEvents' = stripeEvents
        /\ stripeEvents \in Seq([sub : 1 .. MaxSubs, quantity : Quantity])
        /\ r.seat.count \in Quantity
        /\ Len(stripe) \in Nat /\ Len(stripeEvents) \in Nat /\ MaxSubs \in Nat
    BY <1>1, SeatHas, SeatFields, SeatFacts DEF EnsureSubscription
  <1>3. After(q, pc, row, how) /\ pc \in {"update", "commit"}
    BY DEF EnsureSubscription
  <1>4. /\ strayed' = strayed \cup (IF how = "lost" THEN {Len(stripe) + 1} ELSE {})
        /\ strayed \subseteq 1 .. Len(stripe)
    BY <1>1, SeatHas DEF EnsureSubscription
  <1>5. \A s \in 1 .. Len(stripe) \ strayed : stripe[s] = Canceled
    BY <1>1, <1>2 DEF SeatSafe, SubsOK, LiveIn, RowOK
  <1>6. CASE how = "refused"
    <2>1. /\ stripe' = stripe /\ seatReq[q].seat.sub = 0
      BY <1>1, <1>6 DEF EnsureSubscription, RowOK
    <2>2. After(q, "commit", r.seat, how)
      BY <1>3, <1>6 DEF After
    <2>3. /\ stripe' \in Seq(Quantity \cup {Canceled})
          /\ Len(stripe) <= Len(stripe') /\ Len(stripe') <= MaxSubs
          /\ stripeEvents' \in Seq([sub : 1 .. MaxSubs, quantity : Quantity])
          /\ Len(stripeEvents) <= Len(stripeEvents')
      BY <1>2, <2>1
    <2>4. /\ r.seat.row = TRUE /\ r.seat.sub \in 0 .. Len(stripe')
          /\ ~r.subscribe => r.seat.count = r.n
      BY <1>1, <2>1 DEF RowOK
    <2>5. /\ strayed' = strayed
          /\ \A s \in 1 .. Len(stripe') \ strayed' : stripe'[s] # Canceled <=>
                s = IF how = "ok" THEN r.seat.sub ELSE r.seat.sub
      BY <1>2, <1>4, <1>5, <1>6, <2>1
    <2>6. "commit" \in {"update", "commit"} /\ "commit" # "update"
      OBVIOUS
    <2>7. how # "ok" /\ strayed' \subseteq 1 .. Len(stripe')
      BY <1>4, <1>6, <2>1, <2>5
    <2> QED BY <1>1, <2>2, <2>3, <2>4, <2>5, <2>6, <2>7, AfterSafe, Zenon
  <1>7. CASE how # "refused"
    <2>1. /\ Len(stripe) < MaxSubs
          /\ stripe' = Append(stripe, r.seat.count)
      BY <1>7 DEF EnsureSubscription
    <2>2. /\ stripe' \in Seq(Quantity \cup {Canceled}) /\ Len(stripe') = Len(stripe) + 1
          /\ \A s \in 1 .. Len(stripe) : stripe'[s] = stripe[s]
      BY <1>2, <2>1
    <2>3. /\ row \in SeatRows /\ row.row = TRUE /\ row.sub = Len(stripe) + 1
          /\ row.count = r.seat.count
      <3>1. Len(stripe) + 1 \in 0 .. MaxSubs
        BY <1>2, <2>1
      <3>2. /\ row \in SeatRows /\ row.row = r.seat.row /\ row.sub = Len(stripe) + 1
            /\ row.count = r.seat.count
        BY <1>1, <3>1 DEF SeatRows
      <3> QED BY <1>1, <3>2 DEF RowOK
    <2>4. \A s \in 1 .. Len(stripe') \ strayed' : stripe'[s] # Canceled <=>
             s = IF how = "ok" THEN row.sub ELSE r.seat.sub
      <3>1. stripe'[Len(stripe) + 1] # Canceled /\ r.seat.sub = 0
        BY <1>1, <1>2, <2>1, SeatFacts DEF RowOK
      <3> QED BY <1>2, <1>4, <1>5, <1>7, <2>2, <2>3, <3>1 DEF Outcomes
    <2>5. /\ Len(stripe) <= Len(stripe') /\ Len(stripe') <= MaxSubs
          /\ row.sub \in 0 .. Len(stripe') /\ row.sub # 0
      BY <1>2, <2>1, <2>2, <2>3
    <2>6. ~r.subscribe => row.count = r.n
      BY <1>1, <2>3 DEF RowOK
    <2>7. pc = "update" => ~r.subscribe
      OBVIOUS
    <2>8. /\ stripeEvents' \in Seq([sub : 1 .. MaxSubs, quantity : Quantity])
          /\ Len(stripeEvents) <= Len(stripeEvents')
      BY <1>2
    <2>9. pc = "update" => row.sub # 0 /\ ~r.subscribe
      BY <2>5, <2>7
    <2>10. strayed' \subseteq 1 .. Len(stripe')
      <3>1. /\ 1 .. Len(stripe) \subseteq 1 .. Len(stripe')
            /\ Len(stripe) + 1 \in 1 .. Len(stripe')
        BY <1>2, <2>2
      <3> HIDE DEF row, pc, r
      <3> QED BY <1>4, <3>1
    <2> HIDE DEF row, pc
    <2> QED BY <1>1, <1>3, <2>2, <2>3, <2>4, <2>5, <2>6, <2>8, <2>9, <2>10, AfterSafe, Zenon
  <1> QED BY <1>6, <1>7

\* The quantity is changed under the lock.
LEMMA UpdateSafe ==
  ASSUME SeatSafe, NEW q \in SeatRequests, NEW how \in Outcomes, UpdateQuantity(q, how)
  PROVE  SeatSafe'
  <1> DEFINE r == seatReq[q]
             row == [r.seat EXCEPT !.outOfSync = FALSE]
  <1>1. /\ SeatTypeOK /\ HasLock(q) /\ RowOK(r) /\ r.seat \in SeatRows /\ r.pc = "update"
        /\ r.n \in Quantity
    BY RequestFields DEF SeatSafe, UpdateQuantity, HasLock, RowsOK
  <1>2. /\ stripe \in Seq(Quantity \cup {Canceled}) /\ Len(stripe) <= MaxSubs
        /\ stripeEvents \in Seq([sub : 1 .. MaxSubs, quantity : Quantity])
        /\ Len(stripe) \in Nat /\ Len(stripeEvents) \in Nat /\ MaxSubs \in Nat
    BY <1>1, SeatHas, SeatFacts
  <1>3. After(q, "commit", row, how)
    BY DEF UpdateQuantity
  <1>4. /\ row \in SeatRows /\ row.row = TRUE /\ row.sub = r.seat.sub /\ row.count = r.n
        /\ row.sub \in 1 .. Len(stripe) /\ row.sub \in 1 .. MaxSubs
    <2>1. /\ row \in SeatRows /\ row.row = r.seat.row /\ row.sub = r.seat.sub
          /\ row.count = r.seat.count
      BY <1>1 DEF SeatRows
    <2> QED BY <1>1, <1>2, <2>1 DEF RowOK
  <1>5. /\ stripe' \in Seq(Quantity \cup {Canceled}) /\ Len(stripe') = Len(stripe)
        /\ \A s \in 1 .. Len(stripe) : s # row.sub => stripe'[s] = stripe[s]
        /\ stripeEvents' \in Seq([sub : 1 .. MaxSubs, quantity : Quantity])
        /\ Len(stripeEvents) <= Len(stripeEvents')
    <2>1. CASE how = "refused" \/ stripe[r.seat.sub] = r.n
      BY <1>2, <2>1 DEF UpdateQuantity
    <2>2. CASE ~(how = "refused" \/ stripe[r.seat.sub] = r.n)
      <3>1. /\ stripe' = [stripe EXCEPT ![row.sub] = r.n]
            /\ stripeEvents' =
                 Append(stripeEvents, [sub |-> row.sub, quantity |-> r.n])
        BY <1>4, <2>2 DEF UpdateQuantity
      <3> HIDE DEF row, r
      <3>2. [sub |-> row.sub, quantity |-> r.n] \in [sub : 1 .. MaxSubs, quantity : Quantity]
        BY <1>1, <1>4
      <3> QED BY <1>1, <1>2, <1>4, <3>1, <3>2
    <2> QED BY <2>1, <2>2
  <1>6. /\ strayed' = strayed /\ strayed \subseteq 1 .. Len(stripe')
        /\ stripe'[row.sub] # Canceled <=> stripe[row.sub] # Canceled
    <2>1. strayed' = strayed /\ strayed \subseteq 1 .. Len(stripe')
      BY <1>1, <1>2, <1>5, SeatHas DEF UpdateQuantity
    <2>2. CASE how = "refused" \/ stripe[row.sub] = r.n
      BY <1>4, <2>1, <2>2 DEF UpdateQuantity
    <2>3. CASE ~(how = "refused" \/ stripe[row.sub] = r.n)
      <3>1. stripe'[row.sub] = r.n /\ stripe[row.sub] # Canceled
        BY <1>2, <1>4, <2>3 DEF UpdateQuantity
      <3> QED BY <1>1, <2>1, <3>1, SeatFacts
    <2> QED BY <2>1, <2>2, <2>3
  <1>7. \A s \in 1 .. Len(stripe') \ strayed' : stripe'[s] # Canceled <=>
           s = IF how = "ok" THEN row.sub ELSE r.seat.sub
    BY <1>1, <1>4, <1>5, <1>6 DEF SeatSafe, SubsOK, LiveIn
  <1>8. /\ Len(stripe) <= Len(stripe') /\ Len(stripe') <= MaxSubs
        /\ row.sub \in 0 .. Len(stripe')
        /\ "commit" \in {"update", "commit"} /\ "commit" # "update"
    BY <1>2, <1>4, <1>5
  <1>9. row.sub # 0 /\ strayed' \subseteq 1 .. Len(stripe')
    BY <1>2, <1>4, <1>6
  <1> HIDE DEF row
  <1> QED BY <1>1, <1>3, <1>4, <1>5, <1>7, <1>8, <1>9, AfterSafe, Zenon

\* The subscription is cancelled under the lock.
LEMMA CancelSafe ==
  ASSUME SeatSafe, NEW q \in SeatRequests, NEW how \in Outcomes, CancelSubscription(q, how)
  PROVE  SeatSafe'
  <1> DEFINE r == seatReq[q]
             row == [r.seat EXCEPT !.sub = 0, !.outOfSync = FALSE]
  <1>1. /\ SeatTypeOK /\ HasLock(q) /\ RowOK(r) /\ r.seat \in SeatRows /\ r.pc = "cancel"
    BY RequestFields DEF SeatSafe, CancelSubscription, HasLock, RowsOK
  <1>2. /\ stripe \in Seq(Quantity \cup {Canceled}) /\ Len(stripe) <= MaxSubs
        /\ stripeEvents' = stripeEvents
        /\ stripeEvents \in Seq([sub : 1 .. MaxSubs, quantity : Quantity])
        /\ Len(stripe) \in Nat /\ Len(stripeEvents) \in Nat /\ MaxSubs \in Nat
        /\ r.seat.sub \in 1 .. Len(stripe)
    BY <1>1, SeatHas, SeatFacts DEF CancelSubscription, RowOK
  <1>3. After(q, "commit", row, how)
    BY DEF CancelSubscription
  <1>4. /\ row \in SeatRows /\ row.row = TRUE /\ row.sub = 0 /\ row.count = r.seat.count
    <2>1. 0 \in 0 .. MaxSubs /\ FALSE \in BOOLEAN
      BY SeatFacts
    <2>2. /\ row \in SeatRows /\ row.row = r.seat.row /\ row.sub = 0
          /\ row.count = r.seat.count
      BY <1>1, <2>1 DEF SeatRows
    <2> QED BY <1>1, <2>2 DEF RowOK
  <1>5. /\ stripe' \in Seq(Quantity \cup {Canceled}) /\ Len(stripe') = Len(stripe)
        /\ \A s \in 1 .. Len(stripe) : s # r.seat.sub => stripe'[s] = stripe[s]
        /\ how = "ok" => stripe'[r.seat.sub] = Canceled
    BY <1>2 DEF CancelSubscription
  <1>6. /\ strayed' \subseteq 1 .. Len(stripe')
        /\ \A s \in 1 .. Len(stripe') \ strayed' : stripe'[s] # Canceled <=>
              s = IF how = "ok" THEN row.sub ELSE r.seat.sub
    <2>1. \A s \in 1 .. Len(stripe) \ strayed : stripe[s] # Canceled <=> s = r.seat.sub
      BY <1>1 DEF SeatSafe, SubsOK, LiveIn
    <2>2. /\ strayed' = strayed \cup (IF how = "lost" THEN {r.seat.sub} ELSE {})
          /\ strayed \subseteq 1 .. Len(stripe)
          /\ how = "refused" => stripe' = stripe
      BY <1>1, SeatHas DEF CancelSubscription
    <2>3. how \in {"ok", "refused", "lost"}
      BY DEF Outcomes
    <2> HIDE DEF row
    <2>4. CASE how = "ok"
      <3>1. strayed' = strayed /\ stripe'[r.seat.sub] = Canceled
        BY <1>5, <2>2, <2>4
      <3>2. ASSUME NEW s \in 1 .. Len(stripe') \ strayed'
            PROVE  stripe'[s] = Canceled /\ s # row.sub
        <4>1. s \in 1 .. Len(stripe) \ strayed /\ s # 0
          BY <1>2, <1>5, <3>1
        <4>2. CASE s = r.seat.sub
          BY <1>4, <3>1, <4>1, <4>2
        <4>3. CASE s # r.seat.sub
          <5>1. stripe'[s] = stripe[s] /\ stripe[s] = Canceled
            BY <1>5, <2>1, <4>1, <4>3
          <5> QED BY <1>4, <4>1, <5>1
        <4> QED BY <4>2, <4>3
      <3> QED BY <1>5, <2>2, <2>4, <3>1, <3>2
    <2>5. CASE how = "refused"
      <3>1. strayed' = strayed /\ stripe' = stripe /\ how # "ok"
        BY <2>2, <2>5
      <3> QED BY <2>1, <2>2, <3>1
    <2>6. CASE how = "lost"
      <3>1. strayed' = strayed \cup {r.seat.sub} /\ how # "ok"
        BY <2>2, <2>6
      <3>2. ASSUME NEW s \in 1 .. Len(stripe') \ strayed'
            PROVE  stripe'[s] = Canceled /\ s # r.seat.sub
        <4>1. s \in 1 .. Len(stripe) \ strayed /\ s # r.seat.sub
          BY <1>5, <3>1
        <4> QED BY <1>5, <2>1, <4>1
      <3>3. strayed' \subseteq 1 .. Len(stripe')
        BY <1>2, <1>5, <2>2, <3>1
      <3> QED BY <3>1, <3>2, <3>3
    <2> QED BY <2>3, <2>4, <2>5, <2>6
  <1>7. /\ Len(stripe) <= Len(stripe') /\ Len(stripe') <= MaxSubs
        /\ Len(stripeEvents) <= Len(stripeEvents')
        /\ stripeEvents' \in Seq([sub : 1 .. MaxSubs, quantity : Quantity])
        /\ row.sub \in 0 .. Len(stripe')
        /\ "commit" \in {"update", "commit"} /\ "commit" # "update"
        /\ ~r.subscribe => row.count = r.n
        /\ r.n = 0
    BY <1>1, <1>2, <1>4, <1>5 DEF RowOK
  <1> HIDE DEF row
  <1> QED BY <1>1, <1>3, <1>4, <1>5, <1>6, <1>7, AfterSafe, Zenon

\* The transaction writes what it read under the lock.
LEMMA CommitSafe ==
  ASSUME SeatSafe, NEW q \in SeatRequests, CommitSeat(q)
  PROVE  SeatSafe'
  <1> DEFINE r == seatReq[q]
  <1>1. /\ SeatTypeOK /\ HasLock(q) /\ RowOK(r) /\ r.seat \in SeatRows /\ r.n \in Quantity
    BY RequestFields DEF SeatSafe, CommitSeat, HasLock, RowsOK
  <1>2. /\ seatReq' = [seatReq EXCEPT ![q] = NotServing]
        /\ seat' = [r.seat EXCEPT !.count = r.n]
        /\ UNCHANGED << members, stripe, stripeEvents, processed, hook, served,
                        strayed, calm >>
    BY DEF CommitSeat
  <1>3. /\ seat' \in SeatRows /\ seat'.row = r.seat.row /\ seat'.sub = r.seat.sub
    BY <1>1, <1>2 DEF SeatRows
  <1>4. unbilled' \in BOOLEAN
    BY Zenon DEF CommitSeat
  <1>5. /\ seatReq' \in [SeatRequests -> SeatRequestRecords]
        /\ \A o \in SeatRequests : ~HasLock(o)'
    BY <1>1, <1>2, SeatHas, SeatFacts DEF HasLock, SeatSafe, OneLock
  <1>6. seat'.row = TRUE /\ seat'.sub \in 0 .. Len(stripe')
    BY <1>1, <1>2, <1>3 DEF RowOK
  <1>7. SeatTypeOK'
    BY <1>1, <1>2, <1>3, <1>4, <1>5, <1>6, SeatHas, SeatTypes
  <1>8. RowsOK' /\ OneLock'
    BY <1>5 DEF RowsOK, OneLock
  <1>9. HooksOK'
    BY <1>2, <1>6 DEF SeatSafe, HooksOK
  <1>10. SubsOK'
    BY <1>1, <1>2, <1>3, <1>5 DEF SeatSafe, SubsOK, LiveIn
  <1> QED BY <1>7, <1>8, <1>9, <1>10 DEF SeatSafe

\* A request that is cut off lets go of the lock.
LEMMA CutSafe ==
  ASSUME SeatSafe, NEW q \in SeatRequests, RequestCut(q)
  PROVE  SeatSafe'
  <1>1. SeatTypeOK
    BY DEF SeatSafe
  <1>2. /\ seatReq' \in [SeatRequests -> SeatRequestRecords] /\ seatReq'[q] = NotServing
        /\ \A o \in SeatRequests \ {q} : seatReq'[o] = seatReq[o]
    BY <1>1, SeatHas, SeatFacts DEF RequestCut
  <1>3. ~HasLock(q)' /\ \A o \in SeatRequests \ {q} : HasLock(o)' <=> HasLock(o)
    BY <1>2, SeatFacts DEF HasLock
  <1> DEFINE x == seatReq[q].seat
             new == IF HasLock(q) /\ x.sub # seat.sub THEN {x.sub, seat.sub} \ {0} ELSE {}
  <1>4. /\ strayed' = strayed \cup new /\ strayed \subseteq 1 .. Len(stripe)
        /\ UNCHANGED << members, seat, stripe, stripeEvents, processed, hook, served,
                        calm, unbilled >>
    BY <1>1, SeatHas DEF RequestCut
  <1>5. new \subseteq 1 .. Len(stripe)
    <2>1. HasLock(q) => x.sub \in 0 .. Len(stripe)
      BY DEF SeatSafe, RowsOK, RowOK
    <2>2. seat.sub \in 0 .. Len(stripe) /\ Len(stripe) \in Nat
      BY <1>1, SeatHas
    <2> QED BY <2>1, <2>2
  <1>6. SeatTypeOK'
    BY <1>1, <1>2, <1>4, <1>5, SeatHas, SeatTypes
  <1>7. RowsOK' /\ OneLock'
    BY <1>2, <1>3, <1>4 DEF SeatSafe, RowsOK, OneLock, RowOK
  <1>8. HooksOK'
    BY <1>4 DEF SeatSafe, HooksOK
  <1>9. SubsOK'
    <2>1. CASE HasLock(q)
      <3>1. \A o \in SeatRequests : ~HasLock(o)'
        BY <1>3, <2>1 DEF SeatSafe, OneLock
      <3>2. LiveIn(x)
        BY <2>1 DEF SeatSafe, SubsOK
      <3>3. LiveIn(seat)'
        BY <1>4, <2>1, <3>2 DEF LiveIn
      <3> QED BY <3>1, <3>3 DEF SubsOK
    <2>2. CASE ~HasLock(q)
      <3>1. strayed' = strayed /\ (NobodyHasLock' => NobodyHasLock)
        BY <1>3, <1>4, <2>2 DEF NobodyHasLock
      <3>2. \A o \in SeatRequests : HasLock(o)' => HasLock(o) /\ seatReq'[o] = seatReq[o]
        BY <1>2, <1>3
      <3> QED BY <1>4, <3>1, <3>2 DEF SeatSafe, SubsOK, LiveIn
    <2> QED BY <2>1, <2>2
  <1> QED BY <1>6, <1>7, <1>8, <1>9 DEF SeatSafe

\* A subscription that changes otherwise tells its quantity.
LEMMA ChangesSafe ==
  ASSUME SeatSafe, NEW s \in 1 .. MaxSubs, SubscriptionChanges(s)
  PROVE  /\ SeatSafe'
         /\ stripe[s] \in Quantity /\ s \in 1 .. Len(stripe)
         /\ Len(stripeEvents') = Len(stripeEvents) + 1 /\ Len(stripeEvents) \in Nat
         /\ stripeEvents'[Len(stripeEvents) + 1] = [sub |-> s, quantity |-> stripe[s]]
         /\ \A i \in 1 .. Len(stripeEvents) : stripeEvents'[i] = stripeEvents[i]
  <1> DEFINE E == [sub : 1 .. MaxSubs, quantity : Quantity]
             e == [sub |-> s, quantity |-> stripe[s]]
  <1>1. /\ SeatTypeOK /\ s \in 1 .. Len(stripe) /\ stripe[s] # Canceled
        /\ stripeEvents' = Append(stripeEvents, e)
        /\ UNCHANGED << members, seat, stripe, processed, seatReq, hook, served,
                        strayed, calm, unbilled >>
    BY DEF SeatSafe, SubscriptionChanges
  <1>2. stripe[s] \in Quantity /\ stripeEvents \in Seq(E)
    BY <1>1, SeatHas
  <1>3. e \in E
    BY <1>2
  <1> HIDE DEF E, e
  <1>4. /\ stripeEvents' \in Seq(E) /\ Len(stripeEvents') = Len(stripeEvents) + 1
        /\ Len(stripeEvents) \in Nat /\ stripeEvents'[Len(stripeEvents) + 1] = e
        /\ \A i \in 1 .. Len(stripeEvents) : stripeEvents'[i] = stripeEvents[i]
    BY <1>1, <1>2, <1>3
  <1>5. /\ hook \in [Hooks -> [ev : 0 .. Len(stripeEvents'), seen : SeatRows]]
        /\ processed \subseteq 1 .. Len(stripeEvents')
    <2>1. 0 .. Len(stripeEvents) \subseteq 0 .. Len(stripeEvents')
      BY <1>4
    <2>2. [ev : 0 .. Len(stripeEvents), seen : SeatRows]
            \subseteq [ev : 0 .. Len(stripeEvents'), seen : SeatRows]
      BY <2>1
    <2> QED BY <1>1, <1>4, <2>2, SeatHas
  <1>6. SeatTypeOK'
    BY <1>1, <1>4, <1>5, SeatHas, SeatTypes DEF E
  <1>7. RowsOK' /\ OneLock' /\ HooksOK' /\ SubsOK'
    BY <1>1 DEF SeatSafe, RowsOK, OneLock, RowOK, HasLock, HooksOK, SubsOK, LiveIn,
                NobodyHasLock
  <1> QED BY <1>1, <1>2, <1>4, <1>6, <1>7 DEF SeatSafe, e

\* A webhook reads the row without its lock.
LEMMA HookReadsSafe ==
  ASSUME SeatSafe, NEW h \in Hooks, NEW e \in 1 .. MaxHookEvents, HookReads(h, e)
  PROVE  SeatSafe'
  <1> DEFINE x == [ev |-> e, seen |-> seat]
  <1>1. SeatTypeOK
    BY DEF SeatSafe
  <1>2. /\ e \in 1 .. Len(stripeEvents)
        /\ UNCHANGED << members, seat, stripe, stripeEvents, processed, seatReq,
                        served, strayed, unbilled >>
        /\ hook' = [hook EXCEPT ![h] = x]
    BY DEF HookReads, HookRead
  <1>3. calm' \in BOOLEAN
    BY Zenon DEF HookReads, HookRead
  <1>4. x \in [ev : 0 .. Len(stripeEvents), seen : SeatRows] /\ x.ev # 0 /\ x.seen = seat
    BY <1>1, <1>2, SeatHas
  <1> HIDE DEF x
  <1>5. /\ hook' \in [Hooks -> [ev : 0 .. Len(stripeEvents), seen : SeatRows]]
        /\ hook'[h] = x /\ \A g \in Hooks \ {h} : hook'[g] = hook[g]
    BY <1>1, <1>2, <1>4, SeatHas
  <1>6. SeatTypeOK'
    BY <1>1, <1>2, <1>3, <1>5, SeatHas, SeatTypes
  <1>7. RowsOK' /\ OneLock' /\ SubsOK'
    BY <1>2 DEF SeatSafe, RowsOK, OneLock, RowOK, HasLock, SubsOK, LiveIn, NobodyHasLock
  <1>8. seat.sub # 0 => seat.row
    BY <1>1, SeatHas, SeatFacts
  <1>9. HooksOK'
    BY <1>2, <1>4, <1>5, <1>8 DEF SeatSafe, HooksOK
  <1> QED BY <1>6, <1>7, <1>9 DEF SeatSafe

\* The end of a webhook call: its slot is free again.
LEMMA HookEnds ==
  ASSUME SeatSafe, NEW h \in Hooks, hook' = [hook EXCEPT ![h] = NoHook],
         UNCHANGED stripeEvents
  PROVE  /\ hook' \in [Hooks -> [ev : 0 .. Len(stripeEvents'), seen : SeatRows]]
         /\ hook'[h] = NoHook /\ \A g \in Hooks \ {h} : hook'[g] = hook[g]
  <1>1. NoHook \in [ev : 0 .. Len(stripeEvents), seen : SeatRows]
    BY SeatHas, SeatFacts DEF NoHook, SeatSafe
  <1>2. hook \in [Hooks -> [ev : 0 .. Len(stripeEvents), seen : SeatRows]]
    BY SeatHas DEF SeatSafe
  <1> QED BY <1>1, <1>2

\* A webhook writes the status it was told of.
LEMMA HookCommitsSafe ==
  ASSUME SeatSafe, NEW h \in Hooks, HookCommits(h)
  PROVE  SeatSafe'
  <1> DEFINE e == stripeEvents[hook[h].ev]
             was == hook[h].seen
  <1>1. SeatTypeOK
    BY DEF SeatSafe
  <1>2. /\ hook' = [hook EXCEPT ![h] = NoHook]
        /\ processed' = processed \cup {hook[h].ev}
        /\ UNCHANGED << members, stripe, stripeEvents, seatReq, served,
                        strayed, calm, unbilled >>
    BY DEF HookCommits
  <1>3. /\ hook[h].ev \in 1 .. Len(stripeEvents) /\ was \in SeatRows
        /\ e.sub \in 1 .. MaxSubs /\ e.quantity \in Quantity
        /\ was.sub # 0 => was.row
        /\ was.row => seat.row
    <2>1. hook[h].ev \in 1 .. Len(stripeEvents) /\ was \in SeatRows
      BY <1>1, SeatHas DEF HookCommits, SeatSafe, HooksOK
    <2>2. e \in [sub : 1 .. MaxSubs, quantity : Quantity]
      <3> DEFINE E == [sub : 1 .. MaxSubs, quantity : Quantity]
      <3>1. stripeEvents \in Seq(E)
        BY <1>1, SeatHas
      <3> HIDE DEF E
      <3>2. e \in E
        BY <2>1, <3>1
      <3> QED BY <3>2 DEF E
    <2> QED BY <2>1, <2>2 DEF SeatSafe, HooksOK
  <1>4. /\ seat' \in SeatRows /\ seat'.row = seat.row /\ seat'.sub = seat.sub
        /\ seat.row \/ seat' = seat
    <2>1. CASE was.sub # e.sub
      BY <1>1, <2>1, SeatHas DEF HookCommits
    <2>2. CASE was.sub = e.sub
      <3> DEFINE n == IF was.count = e.quantity THEN seat.count ELSE e.quantity
                 o == IF was.outOfSync THEN FALSE ELSE seat.outOfSync
      <3>1. n \in Quantity /\ o \in BOOLEAN /\ seat \in SeatRows
        BY <1>1, <1>3, SeatHas, SeatFields
      <3>2. seat' = [seat EXCEPT !.count = n, !.outOfSync = o]
        BY <2>2, <3>1 DEF HookCommits, SeatRows
      <3> HIDE DEF n, o
      <3>3. seat' \in SeatRows /\ seat'.row = seat.row /\ seat'.sub = seat.sub
        BY <3>1, <3>2 DEF SeatRows
      <3> QED BY <1>3, <2>2, <3>3
    <2> QED BY <2>1, <2>2
  <1>5. SeatTypeOK'
    <2>1. /\ hook' \in [Hooks -> [ev : 0 .. Len(stripeEvents'), seen : SeatRows]]
      BY <1>2, HookEnds
    <2>2. seat'.row \/ seat' = NoSeat
      BY <1>1, <1>4, SeatHas
    <2> QED BY <1>1, <1>2, <1>3, <1>4, <2>1, <2>2, SeatHas, SeatTypes
  <1>6. RowsOK' /\ OneLock' /\ SubsOK'
    BY <1>2, <1>4 DEF SeatSafe, RowsOK, OneLock, RowOK, HasLock, SubsOK, LiveIn, NobodyHasLock
  <1>7. HooksOK'
    BY <1>2, <1>4, HookEnds, SeatFacts DEF SeatSafe, HooksOK
  <1> QED BY <1>5, <1>6, <1>7 DEF SeatSafe

\* A webhook that fails changes nothing.
LEMMA HookFailsSafe ==
  ASSUME SeatSafe, NEW h \in Hooks, HookFails(h)
  PROVE  SeatSafe'
  <1>1. /\ SeatTypeOK /\ hook' = [hook EXCEPT ![h] = NoHook]
        /\ UNCHANGED << members, seat, stripe, stripeEvents, processed, seatReq,
                        served, strayed, calm, unbilled >>
    BY DEF SeatSafe, HookFails
  <1>2. SeatTypeOK'
    BY <1>1, HookEnds, SeatHas, SeatTypes
  <1>3. RowsOK' /\ OneLock' /\ SubsOK'
    BY <1>1 DEF SeatSafe, RowsOK, OneLock, RowOK, HasLock, SubsOK, LiveIn, NobodyHasLock
  <1>4. HooksOK'
    BY <1>1, HookEnds, SeatFacts DEF SeatSafe, HooksOK
  <1> QED BY <1>2, <1>3, <1>4 DEF SeatSafe

\* Every step keeps the subscription unique.
LEMMA SeatStep ==
  ASSUME SeatSafe, [SeatNext]_seatVars
  PROVE  SeatSafe'
  <1>1. ASSUME NEW q \in SeatRequests, Join(q) \/ Leave(q) \/ Subscribe(q)
        PROVE  SeatSafe'
    <2>1. members' \in Quantity
      BY <1>1, SeatHas, SeatAssumption DEF SeatSafe, Join, Leave, Subscribe, Quantity
    <2> DEFINE x == [NotServing EXCEPT !.pc = "count"]
               y == [NotServing EXCEPT !.pc = "count", !.subscribe = TRUE]
    <2>2. /\ x \in SeatRequestRecords /\ x.pc = "count"
          /\ y \in SeatRequestRecords /\ y.pc = "count"
      BY SeatFacts DEF SeatRequestRecords, SeatPcs
    <2>3. Serve(q, x) \/ Serve(q, y)
      BY <1>1 DEF Join, Leave, Subscribe
    <2> HIDE DEF x, y
    <2> QED BY <2>1, <2>2, <2>3, ServeSafe
  <1>2. CASE UNCHANGED seatVars
    BY <1>2 DEF seatVars, SeatSafe, SeatTypeOK, RowsOK, OneLock, RowOK, HasLock, HooksOK,
                SubsOK, LiveIn, NobodyHasLock
  <1> QED BY <1>1, <1>2, CountSafe, LockSafe, CommitSafe, CutSafe, EnsureSafe, UpdateSafe,
             CancelSafe, ChangesSafe, HookReadsSafe, HookCommitsSafe, HookFailsSafe
          DEF SeatNext

(* The counters, rows and requests keep their types (seat_billing.py,
   webhooks.py): a stored subscription exists, and only a row has one. *)
THEOREM SeatBillingTypes == SeatSpec => []SeatTypeOK
  <1>1. SeatSafe => SeatTypeOK
    BY DEF SeatSafe
  <1> QED BY <1>1, SeatInitial, SeatStep, PTL DEF SeatSpec

(* For any number of requests and webhooks: no two subscriptions of the
   organization are live, those aside whose creation was cut off or lost its
   answer (ensure_subscription under get_or_create_seat's lock). *)
THEOREM SubscriptionUnique == SeatSpec => []OneSubscription
  <1>1. SeatSafe => OneSubscription
    <2> DEFINE paying == {s \in 1 .. Len(stripe) \ strayed : stripe[s] # Canceled}
    <2> SUFFICES ASSUME SeatSafe
                 PROVE  Cardinality(paying) <= 1
      BY DEF OneSubscription
    <2>1. \A s, t \in paying : s = t
      BY DEF SeatSafe, SubsOK, LiveIn, NobodyHasLock
    <2>2. CASE paying = {}
      BY <2>2, FS_EmptySet
    <2>3. CASE paying # {}
      <3>1. PICK s \in paying : paying = {s}
        BY <2>1, <2>3
      <3>2. Cardinality(paying) = 1
        BY <3>1, FS_Singleton
      <3> QED BY <3>2
    <2> QED BY <2>2, <2>3
  <1> QED BY <1>1, SeatInitial, SeatStep, PTL DEF SeatSpec

-----------------------------------------------------------------------------
\* A row that agrees with Stripe, is flagged, or will be repaired by an event.
Settled(x) ==
  \/ x.outOfSync = TRUE
  \/ x.sub = 0 /\ x.count = 0
  \/ x.sub # 0 /\ stripe[x.sub] \in {x.count, Canceled}
  \/ \E i \in 1 .. Len(stripeEvents) :
       i \notin processed /\ stripeEvents[i].sub = x.sub

\* The last event of a subscription has its quantity.
EventOK(i) ==
  /\ stripeEvents[i].sub \in 1 .. Len(stripe)
  /\ \/ stripe[stripeEvents[i].sub] \in {stripeEvents[i].quantity, Canceled}
     \/ \E j \in i + 1 .. Len(stripeEvents) : stripeEvents[j].sub = stripeEvents[i].sub

SeatEventsOK == \A i \in 1 .. Len(stripeEvents) : EventOK(i)

\* Webhooks that come one by one, in order and between requests.
CalmOK ==
  calm =>
    /\ \A i \in processed : 1 .. i \subseteq processed
    /\ \A h \in Hooks : hook[h] # NoHook =>
         /\ NobodyHasLock /\ hook[h].seen = seat
         /\ hook[h].ev \notin processed
         /\ 1 .. (hook[h].ev - 1) \subseteq processed
    /\ \A g, h \in Hooks : hook[g] # NoHook /\ hook[h] # NoHook => g = h

\* The committed row, and the row a request is about to commit.
BilledOK ==
  calm =>
    /\ ~unbilled => Settled(seat)
    /\ \A q \in SeatRequests :
         seatReq[q].pc = "commit" /\ ~seatReq[q].subscribe => Settled(seatReq[q].seat)

SeatBills == SeatEventsOK /\ CalmOK /\ BilledOK

\* Nobody is billed for anything yet.
LEMMA BillsInitial == SeatInit => SeatBills
  BY SeatFacts DEF SeatInit, SeatBills, SeatEventsOK, CalmOK, BilledOK, Settled

\* A step that leaves a request without the lock, and all else alone.
LEMMA ApartBills ==
  ASSUME SeatSafe, SeatBills, NEW q \in SeatRequests,
         UNCHANGED << seat, stripe, stripeEvents, processed, hook, calm, unbilled >>,
         \A o \in SeatRequests \ {q} : seatReq'[o] = seatReq[o], ~HasLock(q)'
  PROVE  SeatBills'
  <1>1. NobodyHasLock => NobodyHasLock'
    BY DEF NobodyHasLock, HasLock
  <1>2. SeatEventsOK'
    BY DEF SeatBills, SeatEventsOK, EventOK
  <1>3. CalmOK'
    BY <1>1 DEF SeatBills, CalmOK
  <1>4. seatReq'[q].pc # "commit"
    BY DEF HasLock
  <1>5. BilledOK'
    BY <1>4 DEF SeatBills, BilledOK, Settled
  <1> QED BY <1>2, <1>3, <1>5 DEF SeatBills

\* Taking the lock makes the request the one that settles the bill.
LEMMA LockBills ==
  ASSUME SeatSafe, SeatBills, NEW q \in SeatRequests, LockSeat(q)
  PROVE  SeatBills'
  <1>1. SeatTypeOK /\ seatReq[q].subscribe \in BOOLEAN /\ seatReq[q].n \in Quantity /\ seat \in SeatRows
    BY RequestFields, SeatHas DEF SeatSafe
  <1>2. /\ \A o \in SeatRequests \ {q} : seatReq'[o] = seatReq[o]
        /\ seatReq'[q].pc = FirstCall(seatReq[q].subscribe, seatReq[q].n, seat)
        /\ seatReq'[q].subscribe = seatReq[q].subscribe
    BY <1>1, LockFacts DEF LockSeat
  <1>3. /\ UNCHANGED << seat, stripe, stripeEvents, processed, hook, unbilled >>
        /\ calm' => calm /\ \A h \in Hooks : hook[h] = NoHook
    BY DEF LockSeat, NoHookRuns
  <1>4. SeatEventsOK'
    BY <1>3 DEF SeatBills, SeatEventsOK, EventOK
  <1>5. CalmOK'
    BY <1>3 DEF SeatBills, CalmOK
  <1>6. seatReq'[q].pc = "commit" => seatReq'[q].subscribe
    BY <1>1, <1>2, FirstCallFacts
  <1>7. BilledOK'
    BY <1>2, <1>3, <1>6 DEF SeatBills, BilledOK, Settled
  <1> QED BY <1>4, <1>5, <1>7 DEF SeatBills

\* A call of Stripe by the request that has the lock: no webhook runs.
LEMMA AfterBills ==
  ASSUME SeatSafe, SeatBills, NEW q \in SeatRequests, HasLock(q),
         UNCHANGED << seat, processed, hook, calm, unbilled >>,
         \A o \in SeatRequests \ {q} : seatReq'[o] = seatReq[o],
         SeatEventsOK', Settled(seat) => Settled(seat)',
         seatReq'[q].pc = "commit" /\ ~seatReq'[q].subscribe => Settled(seatReq[q].seat)'
  PROVE  SeatBills'
  <1>1. calm => \A h \in Hooks : hook[h] = NoHook
    BY DEF SeatBills, CalmOK, NobodyHasLock
  <1>2. CalmOK'
    BY <1>1 DEF SeatBills, CalmOK
  <1>3. \A o \in SeatRequests \ {q} : seatReq'[o].pc # "commit"
    BY DEF SeatSafe, OneLock, HasLock
  <1>4. BilledOK'
    BY <1>3 DEF SeatBills, BilledOK
  <1> QED BY <1>2, <1>4 DEF SeatBills

\* A new subscription has the quantity that will be committed.
LEMMA EnsureBills ==
  ASSUME SeatSafe, SeatBills, NEW q \in SeatRequests, NEW how \in Outcomes,
         EnsureSubscription(q, how)
  PROVE  SeatBills'
  <1> DEFINE r == seatReq[q]
             row == [r.seat EXCEPT !.sub = Len(stripe) + 1]
             pc == IF r.subscribe THEN "commit" ELSE "update"
  <1>1. /\ SeatTypeOK /\ HasLock(q) /\ RowOK(r) /\ r.seat \in SeatRows
        /\ r.seat.sub = 0 /\ r.seat.count \in Quantity
    BY RequestFields, SeatFields DEF SeatSafe, EnsureSubscription, HasLock, RowsOK, RowOK
  <1>2. /\ stripe \in Seq(Quantity \cup {Canceled}) /\ Len(stripe) \in Nat
        /\ seat.sub \in 0 .. Len(stripe)
        /\ UNCHANGED << seat, stripeEvents, processed, hook, calm, unbilled >>
        /\ stripe' \in {stripe, Append(stripe, r.seat.count)}
    BY <1>1, SeatHas DEF EnsureSubscription, After
  <1>3. /\ Len(stripe') >= Len(stripe) /\ Len(stripe') \in Nat
        /\ \A s \in 1 .. Len(stripe) : stripe'[s] = stripe[s]
    BY <1>1, <1>2
  <1>4. SeatEventsOK'
    <2> SUFFICES ASSUME NEW i \in 1 .. Len(stripeEvents)
                 PROVE  EventOK(i)'
      BY <1>2 DEF SeatEventsOK
    <2>1. EventOK(i)
      BY DEF SeatBills, SeatEventsOK
    <2> QED BY <1>2, <1>3, <2>1 DEF EventOK
  <1>5. Settled(seat) => Settled(seat)'
    BY <1>2, <1>3 DEF Settled
  <1>6. /\ \A o \in SeatRequests \ {q} : seatReq'[o] = seatReq[o]
        /\ seatReq'[q].subscribe = r.subscribe
        /\ seatReq'[q].pc = "commit" /\ ~r.subscribe => seatReq'[q].seat.outOfSync = TRUE
    <2>1. CASE how = "refused"
      <3>1. After(q, "commit", r.seat, how)
        BY <2>1 DEF EnsureSubscription, After
      <3>2. "commit" \in SeatPcs
        BY DEF SeatPcs
      <3> QED BY <1>1, <2>1, <3>1, <3>2, AfterFacts
    <2>2. CASE how # "refused"
      <3>1. After(q, pc, row, how) /\ Len(stripe) < MaxSubs
        BY <2>2 DEF EnsureSubscription
      <3>2. Len(stripe) + 1 \in 0 .. MaxSubs
        BY <1>2, <3>1, SeatFacts
      <3>3. row \in SeatRows /\ pc \in SeatPcs /\ (~r.subscribe => pc = "update")
        BY <1>1, <3>2 DEF SeatRows, SeatPcs
      <3> HIDE DEF row, pc
      <3> QED BY <1>1, <3>1, <3>3, AfterFacts
    <2> QED BY <2>1, <2>2
  <1>7. seatReq'[q].pc = "commit" /\ ~seatReq'[q].subscribe => Settled(seatReq[q].seat)'
    BY <1>6 DEF Settled
  <1> QED BY <1>1, <1>2, <1>4, <1>5, <1>6, <1>7, AfterBills

\* So has one that is updated.
LEMMA UpdateBills ==
  ASSUME SeatSafe, SeatBills, NEW q \in SeatRequests, NEW how \in Outcomes,
         UpdateQuantity(q, how)
  PROVE  SeatBills'
  <1> DEFINE r == seatReq[q]
             s == r.seat.sub
             row == [r.seat EXCEPT !.outOfSync = FALSE]
             E == [sub : 1 .. MaxSubs, quantity : Quantity]
             e == [sub |-> s, quantity |-> r.n]
  <1>1. /\ SeatTypeOK /\ HasLock(q) /\ RowOK(r) /\ r.seat \in SeatRows
        /\ r.n \in Quantity /\ r.pc = "update"
    BY RequestFields DEF SeatSafe, UpdateQuantity, HasLock, RowsOK
  <1>2. /\ stripe \in Seq(Quantity \cup {Canceled}) /\ Len(stripe) \in Nat
        /\ s \in 1 .. Len(stripe) /\ s \in 1 .. MaxSubs
        /\ seat.sub \in 0 .. Len(stripe) /\ r.seat.count = r.n
        /\ stripeEvents \in Seq(E) /\ Len(stripeEvents) \in Nat
        /\ processed \subseteq 1 .. Len(stripeEvents)
        /\ UNCHANGED << seat, processed, hook, calm, unbilled >>
    <2>1. /\ stripe \in Seq(Quantity \cup {Canceled}) /\ Len(stripe) \in Nat
          /\ seat.sub \in 0 .. Len(stripe)
          /\ stripeEvents \in Seq(E) /\ Len(stripeEvents) \in Nat
          /\ processed \subseteq 1 .. Len(stripeEvents) /\ Len(stripe) <= MaxSubs
      BY <1>1, SeatHas
    <2>2. /\ s \in 1 .. Len(stripe) /\ s \in 1 .. MaxSubs /\ r.seat.count = r.n
      BY <1>1, <2>1, SeatFacts DEF RowOK
    <2>3. UNCHANGED << seat, processed, hook, calm, unbilled >>
      BY DEF UpdateQuantity, After
    <2> QED BY <2>1, <2>2, <2>3
  <1>3. /\ row \in SeatRows /\ row.sub = s /\ row.count = r.seat.count
        /\ After(q, "commit", row, how) /\ "commit" \in SeatPcs
    <2>1. row \in SeatRows /\ row.sub = s /\ row.count = r.seat.count
      BY <1>1 DEF SeatRows
    <2> QED BY <2>1 DEF UpdateQuantity, SeatPcs
  <1> HIDE DEF row
  <1>4. /\ \A o \in SeatRequests \ {q} : seatReq'[o] = seatReq[o]
        /\ seatReq'[q].seat.sub = s /\ seatReq'[q].seat.count = r.n
        /\ how # "ok" => seatReq'[q].seat.outOfSync
    BY <1>1, <1>2, <1>3, AfterFacts
  <1>5. CASE how = "refused" \/ stripe[s] = r.n
    <2>1. UNCHANGED << stripe, stripeEvents >>
      BY <1>5 DEF UpdateQuantity
    <2>2. SeatEventsOK' /\ (Settled(seat) => Settled(seat)')
      BY <1>2, <2>1 DEF SeatBills, SeatEventsOK, EventOK, Settled
    <2>3. Settled(seatReq[q].seat)'
      BY <1>2, <1>4, <1>5, <2>1 DEF Settled
    <2> QED BY <1>1, <1>2, <1>4, <2>2, <2>3, AfterBills
  <1>6. CASE ~(how = "refused" \/ stripe[s] = r.n)
    <2>1. /\ stripe' = [stripe EXCEPT ![s] = r.n]
          /\ stripeEvents' = Append(stripeEvents, e)
      BY <1>6 DEF UpdateQuantity
    <2>2. e \in E /\ e.sub = s /\ e.quantity = r.n
      BY <1>1, <1>2
    <2> HIDE DEF E, e, r, s
    <2> DEFINE n == Len(stripeEvents)
    <2>3. /\ Len(stripeEvents') = n + 1 /\ stripeEvents'[n + 1] = e
          /\ \A i \in 1 .. n : stripeEvents'[i] = stripeEvents[i]
          /\ Len(stripe') = Len(stripe) /\ stripe'[s] = r.n
          /\ \A t \in 1 .. Len(stripe) : t # s => stripe'[t] = stripe[t]
          /\ n + 1 \notin processed /\ n \in Nat
      BY <1>2, <2>1, <2>2
    <2>4. SeatEventsOK'
      <3> SUFFICES ASSUME NEW i \in 1 .. n + 1
                   PROVE  EventOK(i)'
        BY <2>3 DEF SeatEventsOK
      <3>1. CASE i = n + 1
        BY <1>2, <2>2, <2>3, <3>1 DEF EventOK
      <3>2. CASE i # n + 1 /\ stripeEvents[i].sub = s
        <4>1. n + 1 \in i + 1 .. n + 1 /\ stripeEvents'[n + 1].sub = stripeEvents'[i].sub
          BY <2>2, <2>3, <3>2
        <4> QED BY <1>2, <2>3, <3>2, <4>1 DEF EventOK
      <3>3. CASE i # n + 1 /\ stripeEvents[i].sub # s
        <4>1. EventOK(i) /\ i \in 1 .. n
          BY <2>3, <3>3 DEF SeatBills, SeatEventsOK
        <4>2. stripeEvents'[i] = stripeEvents[i]
              /\ stripe'[stripeEvents[i].sub] = stripe[stripeEvents[i].sub]
          BY <2>3, <3>3, <4>1 DEF EventOK
        <4>3. ASSUME NEW j \in i + 1 .. n, stripeEvents[j].sub = stripeEvents[i].sub
              PROVE  \E k \in i + 1 .. n + 1 : stripeEvents'[k].sub = stripeEvents'[i].sub
          <5>1. j \in i + 1 .. n + 1 /\ stripeEvents'[j] = stripeEvents[j]
            BY <2>3, <4>1
          <5> QED BY <4>2, <4>3, <5>1
        <4> QED BY <2>3, <4>1, <4>2, <4>3 DEF EventOK
      <3> QED BY <3>1, <3>2, <3>3
    <2>5. Settled(seat) => Settled(seat)'
      <3>1. CASE seat.sub = s
        BY <1>2, <2>2, <2>3, <3>1 DEF Settled
      <3>2. CASE seat.sub # s
        BY <1>2, <2>3, <3>2 DEF Settled
      <3> QED BY <3>1, <3>2
    <2>6. Settled(seatReq[q].seat)'
      BY <1>2, <1>4, <2>3 DEF Settled
    <2> QED BY <1>1, <1>2, <1>4, <2>4, <2>5, <2>6, AfterBills DEF r
  <1> QED BY <1>5, <1>6

\* A cancelled subscription bills nothing.
LEMMA CancelBills ==
  ASSUME SeatSafe, SeatBills, NEW q \in SeatRequests, NEW how \in Outcomes,
         CancelSubscription(q, how)
  PROVE  SeatBills'
  <1> DEFINE r == seatReq[q]
             s == r.seat.sub
             row == [r.seat EXCEPT !.sub = 0, !.outOfSync = FALSE]
  <1>1. /\ SeatTypeOK /\ HasLock(q) /\ RowOK(r) /\ r.seat \in SeatRows /\ r.pc = "cancel"
    BY RequestFields DEF SeatSafe, CancelSubscription, HasLock, RowsOK
  <1>2. /\ stripe \in Seq(Quantity \cup {Canceled}) /\ Len(stripe) \in Nat
        /\ s \in 1 .. Len(stripe) /\ seat.sub \in 0 .. Len(stripe)
        /\ UNCHANGED << seat, stripeEvents, processed, hook, calm, unbilled >>
        /\ stripe' \in {stripe, [stripe EXCEPT ![s] = Canceled]}
    BY <1>1, SeatHas DEF CancelSubscription, After, RowOK
  <1>3. /\ row \in SeatRows /\ row.sub = 0 /\ row.count = r.n /\ ~r.subscribe /\ r.n = 0
        /\ After(q, "commit", row, how) /\ "commit" \in SeatPcs
    <2>1. 0 \in 0 .. MaxSubs /\ FALSE \in BOOLEAN
      BY SeatFacts
    <2>2. row \in SeatRows /\ row.sub = 0 /\ row.count = r.seat.count
      BY <1>1, <2>1 DEF SeatRows
    <2> QED BY <1>1, <2>2 DEF CancelSubscription, SeatPcs, RowOK
  <1> HIDE DEF row
  <1>4. /\ \A o \in SeatRequests \ {q} : seatReq'[o] = seatReq[o]
        /\ how = "ok" => seatReq'[q].seat.sub = 0 /\ seatReq'[q].seat.count = r.n
        /\ how # "ok" => seatReq'[q].seat.outOfSync
    BY <1>1, <1>3, AfterFacts
  <1>5. /\ Len(stripe') = Len(stripe)
        /\ \A t \in 1 .. Len(stripe) : stripe'[t] \in {stripe[t], Canceled}
    BY <1>2
  <1>6. SeatEventsOK'
    <2> SUFFICES ASSUME NEW i \in 1 .. Len(stripeEvents)
                 PROVE  EventOK(i)'
      BY <1>2 DEF SeatEventsOK
    <2>1. EventOK(i)
      BY DEF SeatBills, SeatEventsOK
    <2> QED BY <1>2, <1>5, <2>1 DEF EventOK
  <1>7. Settled(seat) => Settled(seat)'
    BY <1>2, <1>5 DEF Settled
  <1>8. Settled(seatReq[q].seat)'
    BY <1>3, <1>4 DEF Settled
  <1> QED BY <1>1, <1>2, <1>4, <1>6, <1>7, <1>8, AfterBills

\* After the commit the row and the bill agree.
LEMMA CommitBills ==
  ASSUME SeatSafe, SeatBills, NEW q \in SeatRequests, CommitSeat(q)
  PROVE  SeatBills'
  <1> DEFINE r == seatReq[q]
  <1>1. /\ SeatTypeOK /\ HasLock(q) /\ RowOK(r) /\ r.seat \in SeatRows /\ r.pc = "commit"
        /\ r.subscribe \in BOOLEAN
    BY RequestFields DEF SeatSafe, CommitSeat, HasLock, RowsOK
  <1>2. /\ seatReq' = [seatReq EXCEPT ![q] = NotServing]
        /\ seat' = [r.seat EXCEPT !.count = r.n]
        /\ UNCHANGED << stripe, stripeEvents, processed, hook, calm >>
    BY DEF CommitSeat
  <1>3. /\ seat'.sub = r.seat.sub /\ seat'.count = r.n
        /\ seat'.outOfSync = r.seat.outOfSync
    BY <1>1, <1>2 DEF SeatRows
  <1>4. ~unbilled' => ~unbilled /\ (r.subscribe => r.seat.sub = 0 \/ stripe[r.seat.sub] = r.n)
    BY DEF CommitSeat
  <1>5. calm => \A h \in Hooks : hook[h] = NoHook
    BY <1>1 DEF SeatBills, CalmOK, NobodyHasLock
  <1>6. SeatEventsOK' /\ CalmOK'
    BY <1>2, <1>5 DEF SeatBills, SeatEventsOK, EventOK, CalmOK
  <1>7. \A o \in SeatRequests : seatReq'[o].pc # "commit"
    BY <1>1, <1>2, SeatHas, SeatFacts DEF SeatSafe, OneLock, HasLock
  <1>8. calm /\ ~unbilled' => Settled(seat)'
    <2> SUFFICES ASSUME calm, ~unbilled' PROVE Settled(seat)'
      OBVIOUS
    <2>1. CASE r.subscribe
      <3>1. r.seat.sub = 0 => r.seat.outOfSync = TRUE \/ r.n = 0
        BY <1>1 DEF RowOK
      <3> QED BY <1>2, <1>3, <1>4, <2>1, <3>1 DEF Settled
    <2>2. CASE ~r.subscribe
      <3>1. Settled(r.seat) /\ r.seat.count = r.n
        BY <1>1, <2>2 DEF SeatBills, BilledOK, RowOK
      <3> QED BY <1>2, <1>3, <3>1 DEF Settled
    <2> QED BY <2>1, <2>2
  <1>9. BilledOK'
    BY <1>2, <1>7, <1>8 DEF BilledOK
  <1> QED BY <1>6, <1>9 DEF SeatBills

\* An event of another change has the quantity that is billed.
LEMMA ChangesBills ==
  ASSUME SeatSafe, SeatBills, NEW s \in 1 .. MaxSubs, SubscriptionChanges(s)
  PROVE  SeatBills'
  <1> DEFINE n == Len(stripeEvents)
             e == [sub |-> s, quantity |-> stripe[s]]
  <1>1. UNCHANGED << seat, stripe, processed, seatReq, hook, calm, unbilled >>
    BY DEF SubscriptionChanges
  <1>2. e.sub = s /\ e.quantity = stripe[s]
    OBVIOUS
  <1>3. /\ s \in 1 .. Len(stripe) /\ Len(stripeEvents') = n + 1 /\ n \in Nat
        /\ stripeEvents'[n + 1] = e
        /\ \A i \in 1 .. n : stripeEvents'[i] = stripeEvents[i]
    BY ChangesSafe
  <1> HIDE DEF n, e
  <1>4. SeatEventsOK'
    <2> SUFFICES ASSUME NEW i \in 1 .. n + 1
                 PROVE  EventOK(i)'
      BY <1>3 DEF SeatEventsOK
    <2>1. CASE i = n + 1
      BY <1>1, <1>2, <1>3, <2>1 DEF EventOK
    <2>2. CASE i # n + 1
      <3>1. EventOK(i) /\ i \in 1 .. n
        BY <1>3, <2>2 DEF SeatBills, SeatEventsOK, n
      <3>2. \A j \in i + 1 .. n : j \in i + 1 .. n + 1 /\ stripeEvents'[j] = stripeEvents[j]
        BY <1>3, <3>1
      <3> QED BY <1>1, <1>3, <3>1, <3>2 DEF EventOK, n
    <2> QED BY <2>1, <2>2
  <1>5. ASSUME NEW x, Settled(x)
        PROVE  Settled(x)'
    <2>1. \A i \in 1 .. n : i \in 1 .. n + 1
      BY <1>3
    <2> QED BY <1>1, <1>3, <1>5, <2>1 DEF Settled, n
  <1>6. CalmOK'
    BY <1>1 DEF SeatBills, CalmOK, NobodyHasLock, HasLock
  <1>7. BilledOK'
    BY <1>1, <1>5 DEF SeatBills, BilledOK
  <1> QED BY <1>4, <1>6, <1>7 DEF SeatBills

\* Reading an event changes no bill.
LEMMA HookReadsBills ==
  ASSUME SeatSafe, SeatBills, NEW h \in Hooks, NEW e \in 1 .. MaxHookEvents, HookReads(h, e)
  PROVE  SeatBills'
  <1> DEFINE x == [ev |-> e, seen |-> seat]
  <1>1. /\ UNCHANGED << seat, stripe, stripeEvents, processed, seatReq, unbilled >>
        /\ hook' = [hook EXCEPT ![h] = x] /\ e \notin processed
        /\ calm' => /\ calm /\ \A g \in Hooks : hook[g] = NoHook
                    /\ NobodyHasLock /\ 1 .. (e - 1) \subseteq processed
    BY DEF HookReads, HookRead, NoHookRuns
  <1>2. x.ev = e /\ x.seen = seat
    OBVIOUS
  <1> HIDE DEF x
  <1>3. hook'[h] = x /\ \A g \in Hooks \ {h} : hook'[g] = hook[g]
    BY <1>1, SeatHas DEF SeatSafe
  <1>4. NobodyHasLock' = NobodyHasLock
    BY <1>1 DEF NobodyHasLock, HasLock
  <1>5. CalmOK'
    BY <1>1, <1>2, <1>3, <1>4 DEF SeatBills, CalmOK
  <1>6. SeatEventsOK' /\ BilledOK'
    BY <1>1 DEF SeatBills, SeatEventsOK, EventOK, BilledOK, Settled
  <1> QED BY <1>5, <1>6 DEF SeatBills

\* The row after the event that a webhook handles: the event was the last one
\* of the subscription, or another one is to come.
LEMMA HookSettles ==
  ASSUME SeatSafe, SeatBills, NEW h \in Hooks, HookCommits(h), calm, Settled(seat)
  PROVE  Settled(seat)'
  <1> DEFINE v == hook[h].ev
             e == stripeEvents[v]
             E == [sub : 1 .. MaxSubs, quantity : Quantity]
  <1>1. /\ hook[h] # NoHook /\ hook[h].seen = seat /\ v \notin processed
        /\ 1 .. (v - 1) \subseteq processed
        /\ processed' = processed \cup {v}
        /\ \A i \in processed : 1 .. i \subseteq processed
        /\ UNCHANGED << stripe, stripeEvents >>
    BY DEF HookCommits, SeatBills, CalmOK
  <1>2. /\ v \in 1 .. Len(stripeEvents) /\ Len(stripeEvents) \in Nat
        /\ processed \subseteq 1 .. Len(stripeEvents) /\ seat \in SeatRows
    BY <1>1, SeatHas DEF SeatSafe, HooksOK
  <1>3. EventOK(v)
    BY <1>2 DEF SeatBills, SeatEventsOK
  <1>4. CASE seat.sub # e.sub
    <2>1. seat' = seat
      BY <1>1, <1>4 DEF HookCommits
    <2> QED BY <1>1, <1>2, <1>4, <2>1 DEF Settled
  <1>5. CASE seat.sub = e.sub
    <2> DEFINE n == IF seat.count = e.quantity THEN seat.count ELSE e.quantity
    <2>1. /\ seat'.count = n /\ seat'.sub = seat.sub
      BY <1>1, <1>2, <1>5 DEF HookCommits, SeatRows
    <2>2. n = e.quantity
      OBVIOUS
    <2>3. CASE stripe[e.sub] \in {e.quantity, Canceled}
      <3>1. seat'.sub # 0
        BY <1>3, <1>5, <2>1 DEF EventOK
      <3> QED BY <1>1, <1>5, <2>1, <2>2, <2>3, <3>1 DEF Settled
    <2>4. CASE \E j \in v + 1 .. Len(stripeEvents) : stripeEvents[j].sub = e.sub
      <3>1. PICK j \in v + 1 .. Len(stripeEvents) : stripeEvents[j].sub = e.sub
        BY <2>4
      <3>2. j \in 1 .. Len(stripeEvents) /\ v \in 1 .. j /\ j # v
        BY <1>2, <3>1
      <3>3. j \notin processed'
        BY <1>1, <3>2
      <3> QED BY <1>1, <1>5, <2>1, <3>1, <3>2, <3>3 DEF Settled
    <2> QED BY <1>3, <2>3, <2>4 DEF EventOK
  <1> QED BY <1>4, <1>5

\* An event that is applied tells of a subscription as it was.
LEMMA HookCommitsBills ==
  ASSUME SeatSafe, SeatBills, NEW h \in Hooks, HookCommits(h)
  PROVE  SeatBills'
  <1> DEFINE v == hook[h].ev
  <1>1. /\ UNCHANGED << stripe, stripeEvents, seatReq, calm, unbilled >>
        /\ hook[h] # NoHook
        /\ hook' = [hook EXCEPT ![h] = NoHook] /\ processed' = processed \cup {v}
    BY DEF HookCommits
  <1>2. hook'[h] = NoHook /\ \A g \in Hooks \ {h} : hook'[g] = hook[g]
    BY <1>1, HookEnds
  <1>3. SeatEventsOK'
    BY <1>1 DEF SeatBills, SeatEventsOK, EventOK
  <1>4. v \in 1 .. Len(stripeEvents) /\ Len(stripeEvents) \in Nat
        /\ processed \subseteq 1 .. Len(stripeEvents)
    BY <1>1, SeatHas DEF SeatSafe, HooksOK
  <1>5. ASSUME calm
        PROVE  /\ \A i \in processed' : 1 .. i \subseteq processed'
               /\ \A g \in Hooks : hook'[g] = NoHook
    <2>1. \A g \in Hooks \ {h} : hook[g] = NoHook
      BY <1>1, <1>5 DEF SeatBills, CalmOK
    <2>2. 1 .. (v - 1) \subseteq processed /\ \A i \in processed : 1 .. i \subseteq processed
      BY <1>1, <1>5 DEF SeatBills, CalmOK
    <2>3. 1 .. v \subseteq processed'
      BY <1>1, <1>4, <2>2
    <2> QED BY <1>1, <1>2, <2>1, <2>2, <2>3
  <1>6. CalmOK'
    BY <1>1, <1>5 DEF CalmOK
  <1>7. calm => \A q \in SeatRequests : seatReq[q].pc # "commit"
    BY <1>1 DEF SeatBills, CalmOK, NobodyHasLock, HasLock
  <1>8. calm /\ ~unbilled => Settled(seat)'
    BY HookSettles DEF SeatBills, BilledOK
  <1>9. BilledOK'
    BY <1>1, <1>7, <1>8 DEF BilledOK
  <1> QED BY <1>3, <1>6, <1>9 DEF SeatBills

\* An event that fails stays to be delivered again.
LEMMA HookFailsBills ==
  ASSUME SeatSafe, SeatBills, NEW h \in Hooks, HookFails(h)
  PROVE  SeatBills'
  <1>1. /\ UNCHANGED << seat, stripe, stripeEvents, processed, seatReq, calm, unbilled >>
        /\ hook' = [hook EXCEPT ![h] = NoHook]
    BY DEF HookFails
  <1>2. hook'[h] = NoHook /\ \A g \in Hooks \ {h} : hook'[g] = hook[g]
    BY <1>1, HookEnds
  <1>3. NobodyHasLock' = NobodyHasLock
    BY <1>1 DEF NobodyHasLock, HasLock
  <1>4. CalmOK'
    BY <1>1, <1>2, <1>3 DEF SeatBills, CalmOK
  <1>5. SeatEventsOK' /\ BilledOK'
    BY <1>1 DEF SeatBills, SeatEventsOK, EventOK, BilledOK, Settled
  <1> QED BY <1>4, <1>5 DEF SeatBills

\* Every step keeps the bill settled.
LEMMA BillsStep ==
  ASSUME SeatSafe, SeatBills, [SeatNext]_seatVars
  PROVE  SeatBills'
  <1>1. ASSUME NEW q \in SeatRequests,
               Join(q) \/ Leave(q) \/ Subscribe(q) \/ CountMembers(q) \/ RequestCut(q)
        PROVE  SeatBills'
    <2>1. UNCHANGED << seat, stripe, stripeEvents, processed, hook, calm, unbilled >>
      BY <1>1 DEF Join, Leave, Subscribe, Serve, CountMembers, RequestCut
    <2>2. PICK r : /\ seatReq' = [seatReq EXCEPT ![q] = r]
                   /\ r.pc \in {"idle", "count", "lock"}
      <3>1. /\ seatReq \in [SeatRequests -> SeatRequestRecords]
            /\ NotServing \in SeatRequestRecords /\ NotServing.pc = "idle"
        BY SeatHas, SeatFacts DEF SeatSafe
      <3>2. CASE Join(q) \/ Leave(q) \/ Subscribe(q)
        BY <3>1, <3>2 DEF Join, Leave, Subscribe, Serve, SeatRequestRecords
      <3>3. CASE CountMembers(q)
        <4> DEFINE y == [seatReq[q] EXCEPT !.pc = "lock", !.n = members]
        <4>1. seatReq' = [seatReq EXCEPT ![q] = y] /\ y.pc = "lock"
          BY <3>1, <3>3 DEF CountMembers, SeatRequestRecords
        <4> HIDE DEF y
        <4> QED BY <4>1
      <3>4. CASE RequestCut(q)
        BY <3>1, <3>4 DEF RequestCut
      <3> QED BY <1>1, <3>2, <3>3, <3>4
    <2>3. /\ \A o \in SeatRequests \ {q} : seatReq'[o] = seatReq[o]
          /\ ~HasLock(q)'
      BY <2>2, SeatHas DEF SeatSafe, HasLock
    <2> QED BY <2>1, <2>3, ApartBills
  <1>2. CASE UNCHANGED seatVars
    BY <1>2 DEF seatVars, SeatBills, SeatEventsOK, EventOK, CalmOK, BilledOK, Settled,
                NobodyHasLock, HasLock
  <1> QED BY <1>1, <1>2, LockBills, CommitBills, EnsureBills, UpdateBills, CancelBills,
             ChangesBills, HookReadsBills, HookCommitsBills, HookFailsBills
          DEF SeatNext

(* For any number of requests and webhooks, which may fail at any point: when
   all is quiet, the row has the live subscription, those that strayed aside,
   and when every event is handled, the quantity that is billed is the count
   that is stored, or the row is flagged (update_seat_count,
   reconcile_seat_from_webhook). *)
THEOREM SeatsAreBilled == SeatSpec => []BillingMatches
  <1>1. SeatSafe /\ SeatBills => BillingMatches
    <2> SUFFICES ASSUME SeatSafe, SeatBills, Quiet
                 PROVE  BillingMatches
      BY DEF BillingMatches
    <2>1. LiveIn(seat)
      BY SeatFacts DEF Quiet, SeatSafe, SubsOK, NobodyHasLock, HasLock
    <2>2. seat.sub \in 0 .. Len(stripe)
      BY SeatHas DEF SeatSafe
    <2> QED BY <2>1, <2>2 DEF SeatBills, BilledOK, Settled, BillingMatches, LiveIn
  <1> QED BY <1>1, SeatInitial, SeatStep, BillsInitial, BillsStep, PTL DEF SeatSpec

-----------------------------------------------------------------------------
(***************************************************************************)
(* TlogPublish: every record of the log is accounted to its publisher.     *)
(***************************************************************************)

RequestStates == {"new", "add", "record", "read", "write", "answer"} \cup Finished

PublishShapes ==
  /\ merkle \in Seq(ArtifactIds)
  /\ integrated \in 0 .. Len(merkle)
  /\ Len(merkle) - integrated <= PushbackMax
  /\ usage \in Nat
  /\ reqPc \in [Requests -> RequestStates]
  /\ reqBy \in [Requests -> {"user", "publisher"}]
  /\ reqId \in [Requests -> ArtifactIds]
  /\ reqIndex \in [Requests -> 0 .. Len(merkle)]
  /\ reqCount \in [Requests -> Nat]
  /\ counted \subseteq Requests
  /\ apart \in BOOLEAN

\* A record has the index that the log gave to its artifact.
RecordsOK ==
  \A e \in records :
    /\ e = << e[1], e[2] >>
    /\ e[1] \in 1 .. Len(merkle) /\ e[2] \in ArtifactIds /\ merkle[e[1]] = e[2]

\* What a request knows of its entry; the counted ones have all of it.
Known(r) ==
  /\ reqIndex[r] \in 1 .. Len(merkle) /\ merkle[reqIndex[r]] = reqId[r]
  /\ << reqIndex[r], reqId[r] >> \in records

AddedOK ==
  \A r \in Requests :
    /\ reqPc[r] = "record" =>
         reqIndex[r] \in 1 .. Len(merkle) /\ merkle[reqIndex[r]] = reqId[r]
    /\ reqPc[r] \in {"read", "write", "answer", "200"} \/ r \in counted => Known(r)
    /\ reqPc[r] \in {"read", "write"} => reqBy[r] = "user" /\ r \notin counted
    /\ reqPc[r] \in {"new", "add", "record"} => r \notin counted
    /\ reqPc[r] = "answer" => r \in counted
    /\ reqPc[r] = "200" /\ reqBy[r] = "user" => r \in counted

\* The user's publish that is in progress.
Mines(r) == reqBy[r] = "user" /\ Active(r)

\* While the user's requests do not overlap, the count is exact.
UsageOK ==
  apart =>
    /\ IsFiniteSet(counted) /\ usage = Cardinality(counted) /\ usage <= FreeLimit
    /\ \A q, r \in Requests : Mines(q) /\ Mines(r) => q = r
    /\ \A r \in Requests : Mines(r) /\ r \notin counted => usage < FreeLimit
    /\ \A r \in Requests : reqPc[r] = "write" => reqCount[r] = usage

PublishIInv == PublishShapes /\ RecordsOK /\ AddedOK /\ UsageOK

-----------------------------------------------------------------------------
\* Nothing is published and nothing is added.
LEMMA PublishInitial == PublishInit => PublishIInv
  <1> SUFFICES ASSUME PublishInit PROVE PublishIInv
    OBVIOUS
  <1>1. PublishShapes
    BY PublishAssumption DEF PublishInit, PublishShapes, RequestStates
  <1>2. RecordsOK /\ AddedOK
    BY DEF PublishInit, RecordsOK, AddedOK
  <1>3. counted = {} /\ \A r \in Requests : ~Mines(r) /\ reqPc[r] = "new"
    BY DEF PublishInit, Mines, Active
  <1>4. UsageOK
    BY <1>3, FS_EmptySet, PublishAssumption DEF PublishInit, UsageOK
  <1> QED BY <1>1, <1>2, <1>4 DEF PublishIInv

\* The request that a step moves, and the others.
LEMMA MovedRequest ==
  ASSUME PublishShapes, NEW r \in Requests, NEW pc \in RequestStates,
         reqPc' = [reqPc EXCEPT ![r] = pc]
  PROVE  /\ reqPc' \in [Requests -> RequestStates] /\ reqPc'[r] = pc
         /\ \A q \in Requests \ {r} : reqPc'[q] = reqPc[q]
  BY DEF PublishShapes

\* A request that ends or goes on without being counted.
LEMMA UsageKept ==
  ASSUME PublishIInv, NEW r \in Requests, NEW pc \in RequestStates \ {"write"},
         reqPc' = [reqPc EXCEPT ![r] = pc], Active(r),
         UNCHANGED << usage, reqBy, reqCount, counted, apart >>
  PROVE  UsageOK'
  <1>1. /\ reqPc'[r] = pc /\ \A q \in Requests \ {r} : reqPc'[q] = reqPc[q]
    <2>1. pc \in RequestStates /\ PublishShapes
      BY DEF PublishIInv
    <2> QED BY <2>1, MovedRequest, Zenon
  <1>3. \A q \in Requests : Mines(q)' => Mines(q)
    BY <1>1 DEF Mines, Active, Finished
  <1> QED BY <1>1, <1>3 DEF PublishIInv, UsageOK

\* Every step of a publication keeps the account of what is published.
LEMMA PublishStep ==
  ASSUME PublishIInv, [PublishNext]_publishVars
  PROVE  PublishIInv'
  <1> USE PublishAssumption
  <1>0. PublishShapes /\ RecordsOK /\ AddedOK /\ UsageOK
    BY DEF PublishIInv
  <1>1. ASSUME NEW r \in Requests, CheckLimit(r)
        PROVE  PublishIInv'
    <2> DEFINE pc == IF OverLimit(r) THEN "429" ELSE "add"
    <2>1. /\ reqPc[r] = "new" /\ reqPc' = [reqPc EXCEPT ![r] = pc] /\ pc \in RequestStates
          /\ UNCHANGED << merkle, integrated, records, usage, reqBy, reqId, reqIndex,
                          reqCount, counted >>
      BY <1>1 DEF CheckLimit, RequestStates, Finished
    <2>2. apart' = (apart /\ ~ \E q \in Requests : Active(q) /\ reqBy[q] = "user"
                                                   /\ reqBy[r] = "user")
      BY <1>1 DEF CheckLimit
    <2>3. apart' \in BOOLEAN
      BY <2>2, Zenon
    <2>4. /\ reqPc' \in [Requests -> RequestStates] /\ reqPc'[r] = pc
          /\ \A q \in Requests \ {r} : reqPc'[q] = reqPc[q]
      BY <1>0, <2>1, MovedRequest
    <2>5. PublishShapes' /\ RecordsOK'
      BY <1>0, <2>1, <2>3, <2>4 DEF PublishShapes, RecordsOK
    <2>6. AddedOK'
      BY <1>0, <2>1, <2>4 DEF AddedOK, Known, Finished
    <2>7. UsageOK'
      <3> SUFFICES ASSUME apart' PROVE UsageOK'
        BY DEF UsageOK
      <3>1. apart /\ \A q \in Requests : Mines(q) => reqBy[r] # "user"
        BY <2>2 DEF Mines
      <3>3. \A q \in Requests \ {r} : Mines(q)' <=> Mines(q)
        BY <2>1, <2>4 DEF Mines, Active
      <3>4. Mines(r)' => reqBy[r] = "user" /\ usage < FreeLimit
        BY <1>0, <2>1, <2>4 DEF Mines, Active, OverLimit, Finished, PublishShapes
      <3>5. \A q \in Requests : reqPc'[q] = "write" => reqPc[q] = "write"
        BY <2>4
      <3> QED BY <1>0, <2>1, <3>1, <3>3, <3>4, <3>5 DEF UsageOK
    <2> QED BY <2>5, <2>6, <2>7 DEF PublishIInv
  <1>2. ASSUME NEW r \in Requests, AddRefused(r) \/ AddPushedBack(r)
        PROVE  PublishIInv'
    <2>1. PICK pc \in {"502", "503"} : reqPc' = [reqPc EXCEPT ![r] = pc]
      BY <1>2 DEF AddRefused, AddPushedBack
    <2>2. /\ reqPc[r] = "add" /\ pc \in RequestStates /\ pc \in RequestStates \ {"write"}
          /\ UNCHANGED << merkle, integrated, records, usage, reqBy, reqId, reqIndex,
                          reqCount, counted, apart >>
      BY <1>2 DEF AddRefused, AddPushedBack, RequestStates, Finished
    <2>3. /\ reqPc' \in [Requests -> RequestStates] /\ reqPc'[r] = pc
          /\ \A q \in Requests \ {r} : reqPc'[q] = reqPc[q]
      BY <1>0, <2>1, <2>2, MovedRequest
    <2>4. PublishShapes' /\ RecordsOK' /\ AddedOK'
      BY <1>0, <2>2, <2>3 DEF PublishShapes, RecordsOK, AddedOK, Known
    <2>5. UsageOK'
      BY <2>1, <2>2, UsageKept DEF Active, Finished
    <2> QED BY <2>4, <2>5 DEF PublishIInv
  <1>3. ASSUME NEW r \in Requests, NEW answered \in BOOLEAN, AddEntry(r, answered)
        PROVE  PublishIInv'
    <2> DEFINE pc == IF answered THEN "record" ELSE "502"
    <2>1. /\ reqPc[r] = "add" /\ reqPc' = [reqPc EXCEPT ![r] = pc]
          /\ pc \in RequestStates /\ pc \in RequestStates \ {"write"}
          /\ Len(merkle) - integrated < PushbackMax
          /\ merkle' = Append(merkle, reqId[r])
          /\ reqIndex' = [reqIndex EXCEPT ![r] = Len(merkle) + 1]
          /\ UNCHANGED << integrated, records, usage, reqBy, reqId, reqCount, counted,
                          apart >>
      BY <1>3 DEF AddEntry, RequestStates, Finished
    <2>2. /\ reqPc' \in [Requests -> RequestStates] /\ reqPc'[r] = pc
          /\ \A q \in Requests \ {r} : reqPc'[q] = reqPc[q]
      BY <1>0, <2>1, MovedRequest
    <2>3. /\ Len(merkle) \in Nat /\ Len(merkle') = Len(merkle) + 1
          /\ merkle' \in Seq(ArtifactIds) /\ merkle'[Len(merkle) + 1] = reqId[r]
          /\ \A i \in 1 .. Len(merkle) : merkle'[i] = merkle[i]
      BY <1>0, <2>1 DEF PublishShapes
    <2>4. /\ reqIndex' \in [Requests -> 0 .. Len(merkle')] /\ reqIndex'[r] = Len(merkle) + 1
          /\ \A q \in Requests \ {r} : reqIndex'[q] = reqIndex[q]
      BY <1>0, <2>1, <2>3 DEF PublishShapes
    <2>5. PublishShapes'
      BY <1>0, <2>1, <2>2, <2>3, <2>4 DEF PublishShapes
    <2>6. RecordsOK'
      BY <1>0, <2>1, <2>3 DEF RecordsOK
    <2>7. AddedOK'
      <3> HIDE DEF pc
      <3>1. 1 .. Len(merkle) \subseteq 1 .. Len(merkle')
        BY <2>3
      <3>2. ASSUME NEW q \in Requests \ {r}
            PROVE  /\ reqPc'[q] = reqPc[q] /\ reqIndex'[q] = reqIndex[q]
                   /\ reqIndex[q] \in 1 .. Len(merkle) =>
                        merkle'[reqIndex[q]] = merkle[reqIndex[q]]
        BY <2>2, <2>3, <2>4, <3>2
      <3>3. ASSUME NEW q \in Requests \ {r}, Known(q)
            PROVE  Known(q)'
        BY <2>1, <3>1, <3>2, <3>3 DEF Known
      <3>4. r \notin counted /\ reqPc'[r] \in {"record", "502"}
        BY <1>0, <2>1, <2>2 DEF AddedOK, pc
      <3>5. reqIndex'[r] \in 1 .. Len(merkle') /\ merkle'[reqIndex'[r]] = reqId'[r]
        BY <2>1, <2>3, <2>4
      <3> QED BY <1>0, <2>1, <3>1, <3>2, <3>3, <3>4, <3>5 DEF AddedOK
    <2>8. UsageOK'
      <3> HIDE DEF pc
      <3> QED BY <2>1, UsageKept DEF Active, Finished
    <2> QED BY <2>5, <2>6, <2>7, <2>8 DEF PublishIInv
  <1>4. ASSUME NEW r \in Requests, NEW ok \in BOOLEAN, SaveRecord(r, ok)
        PROVE  PublishIInv'
    <2> DEFINE pc == IF ~ok THEN "500" ELSE IF reqBy[r] = "user" THEN "read" ELSE "200"
    <2>1. /\ reqPc[r] = "record" /\ reqPc' = [reqPc EXCEPT ![r] = pc] /\ pc \in RequestStates
          /\ records' = IF ok THEN records \cup {<< reqIndex[r], reqId[r] >>} ELSE records
          /\ UNCHANGED << merkle, integrated, usage, reqBy, reqId, reqIndex, reqCount,
                          counted, apart >>
      BY <1>4 DEF SaveRecord, RequestStates, Finished
    <2>2. /\ reqPc' \in [Requests -> RequestStates] /\ reqPc'[r] = pc
          /\ \A q \in Requests \ {r} : reqPc'[q] = reqPc[q]
      BY <1>0, <2>1, MovedRequest
    <2>3. reqIndex[r] \in 1 .. Len(merkle) /\ merkle[reqIndex[r]] = reqId[r] /\ reqId[r] \in ArtifactIds
      BY <1>0, <2>1 DEF AddedOK, PublishShapes
    <2>4. PublishShapes'
      BY <1>0, <2>1, <2>2 DEF PublishShapes
    <2>5. RecordsOK'
      BY <1>0, <2>1, <2>3 DEF RecordsOK
    <2>6. AddedOK'
      BY <1>0, <2>1, <2>2, <2>3 DEF AddedOK, Known
    <2>7. UsageOK'
      <3>2. \A q \in Requests : Mines(q)' => Mines(q)
        BY <2>1, <2>2 DEF Mines, Active, Finished
      <3>3. \A q \in Requests : reqPc'[q] = "write" => reqPc[q] = "write"
        BY <2>2
      <3> QED BY <1>0, <2>1, <3>2, <3>3 DEF UsageOK
    <2> QED BY <2>4, <2>5, <2>6, <2>7 DEF PublishIInv
  <1>5. ASSUME NEW r \in Requests, ReadUsage(r)
        PROVE  PublishIInv'
    <2>1. /\ reqPc[r] = "read" /\ reqPc' = [reqPc EXCEPT ![r] = "write"]
          /\ "write" \in RequestStates
          /\ reqCount' = [reqCount EXCEPT ![r] = usage]
          /\ UNCHANGED << merkle, integrated, records, usage, reqBy, reqId, reqIndex,
                          counted, apart >>
      BY <1>5 DEF ReadUsage, RequestStates
    <2>2. /\ reqPc' \in [Requests -> RequestStates] /\ reqPc'[r] = "write"
          /\ \A q \in Requests \ {r} : reqPc'[q] = reqPc[q]
      BY <1>0, <2>1, MovedRequest
    <2>3. /\ reqCount' \in [Requests -> Nat] /\ reqCount'[r] = usage
          /\ \A q \in Requests \ {r} : reqCount'[q] = reqCount[q]
      BY <1>0, <2>1 DEF PublishShapes
    <2>4. PublishShapes' /\ RecordsOK' /\ AddedOK'
      BY <1>0, <2>1, <2>2, <2>3 DEF PublishShapes, RecordsOK, AddedOK, Known
    <2>5. UsageOK'
      <3>2. \A q \in Requests : Mines(q)' => Mines(q)
        BY <2>1, <2>2 DEF Mines, Active, Finished
      <3> QED BY <1>0, <2>1, <2>2, <2>3, <3>2 DEF UsageOK
    <2> QED BY <2>4, <2>5 DEF PublishIInv
  <1>6. ASSUME NEW r \in Requests, WriteUsage(r), ~(reqCount[r] = 0 /\ usage > 0)
        PROVE  PublishIInv'
    <2>1. /\ reqPc[r] = "write" /\ reqPc' = [reqPc EXCEPT ![r] = "answer"]
          /\ usage' = reqCount[r] + 1 /\ counted' = counted \cup {r}
          /\ "answer" \in RequestStates
          /\ UNCHANGED << merkle, integrated, records, reqBy, reqId, reqIndex, reqCount,
                          apart >>
      BY <1>6 DEF WriteUsage, RequestStates
    <2>2. /\ reqPc' \in [Requests -> RequestStates] /\ reqPc'[r] = "answer"
          /\ \A q \in Requests \ {r} : reqPc'[q] = reqPc[q]
      BY <1>0, <2>1, MovedRequest
    <2>3. usage' \in Nat /\ usage \in Nat
      BY <1>0, <2>1 DEF PublishShapes
    <2>4. PublishShapes' /\ RecordsOK' /\ AddedOK'
      BY <1>0, <2>1, <2>2, <2>3 DEF PublishShapes, RecordsOK, AddedOK, Known
    <2>5. UsageOK'
      <3> SUFFICES ASSUME apart PROVE UsageOK'
        BY <2>1 DEF UsageOK
      <3>1. reqBy[r] = "user" /\ Mines(r) /\ r \notin counted
        BY <1>0, <2>1 DEF AddedOK, Mines, Active, Finished
      <3>2. /\ usage' = usage + 1 /\ usage < FreeLimit /\ IsFiniteSet(counted)
            /\ usage = Cardinality(counted)
        BY <1>0, <2>1, <3>1 DEF UsageOK
      <3>3. IsFiniteSet(counted') /\ usage' = Cardinality(counted')
        BY <2>1, <2>3, <3>1, <3>2, FS_AddElement
      <3>4. \A q \in Requests : Mines(q)' => q = r
        BY <1>0, <2>1, <2>2, <3>1 DEF UsageOK, Mines, Active, Finished
      <3>5. \A q \in Requests : reqPc'[q] # "write"
        BY <1>0, <2>1, <2>2, <3>1 DEF UsageOK, AddedOK, Mines, Active, Finished
      <3> QED BY <2>1, <2>3, <3>2, <3>3, <3>4, <3>5 DEF UsageOK
    <2> QED BY <2>4, <2>5 DEF PublishIInv
  <1>9. ASSUME NEW r \in Requests,
               \/ WriteUsage(r) /\ reqCount[r] = 0 /\ usage > 0
               \/ UsageFails(r)
               \/ \E ok \in BOOLEAN : AnswerPublish(r, ok)
        PROVE  PublishIInv'
    <2>1. PICK pc \in {"200", "500"} : /\ reqPc' = [reqPc EXCEPT ![r] = pc]
                                       /\ pc = "200" => reqPc[r] = "answer"
      BY <1>9 DEF WriteUsage, UsageFails, AnswerPublish
    <2>2. /\ reqPc[r] \in {"read", "write", "answer"}
          /\ pc \in RequestStates /\ pc \in RequestStates \ {"write"}
          /\ UNCHANGED << merkle, integrated, records, usage, reqBy, reqId, reqIndex,
                          reqCount, counted, apart >>
      BY <1>9 DEF WriteUsage, UsageFails, AnswerPublish, RequestStates, Finished
    <2>3. /\ reqPc' \in [Requests -> RequestStates] /\ reqPc'[r] = pc
          /\ \A q \in Requests \ {r} : reqPc'[q] = reqPc[q]
      BY <1>0, <2>1, <2>2, MovedRequest
    <2>4. PublishShapes' /\ RecordsOK' /\ AddedOK'
      BY <1>0, <2>1, <2>2, <2>3 DEF PublishShapes, RecordsOK, AddedOK, Known
    <2>5. UsageOK'
      BY <2>1, <2>2, UsageKept DEF Active, Finished
    <2> QED BY <2>4, <2>5 DEF PublishIInv
  <1>7. CASE Integrate
    <2>1. PublishShapes'
      BY <1>0, <1>7 DEF Integrate, PublishShapes
    <2>2. RecordsOK' /\ AddedOK' /\ UsageOK'
      BY <1>0, <1>7 DEF Integrate, RecordsOK, AddedOK, Known, UsageOK, Mines, Active
    <2> QED BY <2>1, <2>2 DEF PublishIInv
  <1>8. CASE UNCHANGED publishVars
    BY <1>0, <1>8 DEF publishVars, PublishIInv, PublishShapes, RecordsOK, AddedOK, Known,
                      UsageOK, Mines, Active
  <1> QED BY <1>1, <1>2, <1>3, <1>4, <1>5, <1>6, <1>7, <1>8, <1>9 DEF PublishNext

\* lookup_entry returns the index of a record, and no record has a larger one.
LEMMA LookupFacts ==
  ASSUME PublishIInv, NEW id \in ArtifactIds
  PROVE  /\ Lookup(id) # 0 => << Lookup(id), id >> \in records
         /\ \A i : << i, id >> \in records => Lookup(id) >= i
  <1> DEFINE indices == {e[1] : e \in {x \in records : x[2] = id}}
             n == Len(merkle)
  <1>1. n \in Nat /\ \A e \in records : e = << e[1], e[2] >> /\ e[1] \in 1 .. n
    BY DEF PublishIInv, PublishShapes, RecordsOK
  <1>2. indices \in SUBSET (0 .. n)
    BY <1>1
  <1>3. \A i : << i, id >> \in records => i \in indices
    OBVIOUS
  <1>4. \A i \in indices : << i, id >> \in records
    BY <1>1
  <1>5. CASE indices = {}
    BY <1>3, <1>5 DEF Lookup
  <1>6. CASE indices # {}
    <2>1. Lookup(id) = Max(indices)
      BY <1>6 DEF Lookup
    <2> HIDE DEF indices, n
    <2>2. Max(indices) \in indices /\ \A x \in indices : x <= Max(indices)
      BY <1>1, <1>2, <1>6, MaxInSet
    <2>3. \A x \in indices : x \in Nat
      BY <1>1, <1>2
    <2> QED BY <1>3, <1>4, <2>1, <2>2, <2>3
  <1> QED BY <1>5, <1>6

-----------------------------------------------------------------------------
\* The count is below the number of counted publishes, and so is every count
\* that a request has read and not yet written.
CountedOK ==
  /\ IsFiniteSet(counted)
  /\ usage <= Cardinality(counted)
  /\ \A r \in Requests \ counted : reqCount[r] <= Cardinality(counted)

\* No step counts a publish twice or one that is not in the log.
LEMMA CountStep ==
  ASSUME PublishIInv, CountedOK, [PublishNext]_publishVars
  PROVE  CountedOK'
  <1>0. PublishShapes /\ AddedOK
    BY DEF PublishIInv
  <1>1. CASE UNCHANGED << usage, counted, reqCount >>
    BY <1>1 DEF CountedOK
  <1>2. ASSUME NEW r \in Requests, ReadUsage(r)
        PROVE  CountedOK'
    <2>1. reqCount' = [reqCount EXCEPT ![r] = usage] /\ UNCHANGED << usage, counted >>
      BY <1>2 DEF ReadUsage
    <2>2. \A q \in Requests : reqCount'[q] \in {reqCount[q], usage}
      BY <1>0, <2>1 DEF PublishShapes
    <2> QED BY <2>1, <2>2 DEF CountedOK
  <1>3. ASSUME NEW r \in Requests, WriteUsage(r), ~(reqCount[r] = 0 /\ usage > 0)
        PROVE  CountedOK'
    <2>1. /\ reqPc[r] = "write" /\ usage' = reqCount[r] + 1
          /\ counted' = counted \cup {r} /\ UNCHANGED reqCount
      BY <1>3 DEF WriteUsage
    <2>2. r \notin counted
      BY <1>0, <2>1 DEF AddedOK
    <2>3. /\ IsFiniteSet(counted') /\ Cardinality(counted') = Cardinality(counted) + 1
          /\ Cardinality(counted) \in Nat
      BY <2>1, <2>2, FS_AddElement, FS_CardinalityType DEF CountedOK
    <2>4. \A q \in Requests : reqCount[q] \in Nat
      BY <1>0 DEF PublishShapes
    <2>5. \A q \in Requests \ counted' : reqCount'[q] <= Cardinality(counted')
      BY <2>1, <2>3, <2>4 DEF CountedOK
    <2> QED BY <2>1, <2>2, <2>3, <2>4, <2>5 DEF CountedOK
  <1>4. ASSUME NEW r \in Requests,
               \/ CheckLimit(r) \/ AddRefused(r) \/ AddPushedBack(r)
               \/ \E answered \in BOOLEAN : AddEntry(r, answered)
               \/ \E ok \in BOOLEAN : SaveRecord(r, ok)
               \/ WriteUsage(r) /\ reqCount[r] = 0 /\ usage > 0
               \/ UsageFails(r)
               \/ \E ok \in BOOLEAN : AnswerPublish(r, ok)
        PROVE  UNCHANGED << usage, counted, reqCount >>
    BY <1>4 DEF CheckLimit, AddRefused, AddPushedBack, AddEntry, SaveRecord, WriteUsage,
                UsageFails, AnswerPublish
  <1>5. CASE Integrate \/ UNCHANGED publishVars
    BY <1>1, <1>5 DEF Integrate, publishVars
  <1> QED BY <1>1, <1>2, <1>3, <1>4, <1>5 DEF PublishNext

\* Both parts of the invariant, in every behaviour.
LEMMA PublishInvariant == PublishSpec => [](PublishIInv /\ CountedOK)
  <1>1. PublishInit => CountedOK
    <2> SUFFICES ASSUME PublishInit PROVE CountedOK
      OBVIOUS
    <2> QED BY FS_EmptySet DEF PublishInit, CountedOK
  <1> QED BY <1>1, PublishInitial, PublishStep, CountStep, PTL DEF PublishSpec

(* The log, the records and the requests keep their types, and the queue of
   entries that are not integrated its limit (pushback, personality.go). *)
THEOREM PublishTypes == PublishSpec => []PublishTypeOK
  <1>1. PublishIInv => PublishTypeOK
    BY DEF PublishIInv, PublishShapes, RecordsOK, RequestStates, PublishTypeOK
  <1> QED BY <1>1, PublishInvariant, PTL

(* For any number of requests and artifacts and any limit: what was published
   with success, or counted and then answered 500, is in the log and is found by
   a lookup, a user's success is counted, and the count is never above what was
   counted, however the requests overlap (publish_entry, lookup_entry and
   increment_usage of the service). *)
THEOREM PublishAccounted == PublishSpec => []PublishedIsAccounted
  <1>1. PublishIInv /\ CountedOK => PublishedIsAccounted
    <2> SUFFICES ASSUME PublishIInv, CountedOK PROVE PublishedIsAccounted
      OBVIOUS
    <2>1. ASSUME NEW id \in ArtifactIds, Lookup(id) # 0
          PROVE  merkle[Lookup(id)] = id
      BY <2>1, LookupFacts DEF PublishIInv, RecordsOK
    <2>2. ASSUME NEW r \in Requests, reqPc[r] = "200" \/ r \in counted
          PROVE  merkle[reqIndex[r]] = reqId[r] /\ Lookup(reqId[r]) >= reqIndex[r]
      <3>1. reqId[r] \in ArtifactIds /\ << reqIndex[r], reqId[r] >> \in records
            /\ merkle[reqIndex[r]] = reqId[r]
        BY <2>2 DEF PublishIInv, PublishShapes, AddedOK, Known
      <3> QED BY <3>1, LookupFacts
    <2>3. apart => usage = Cardinality(counted) /\ usage <= FreeLimit
      BY DEF PublishIInv, UsageOK
    <2>4. usage <= Cardinality(counted)
      BY DEF CountedOK
    <2>5. \A r \in Requests : reqPc[r] = "200" /\ reqBy[r] = "user" => r \in counted
      BY DEF PublishIInv, AddedOK
    <2> QED BY <2>1, <2>2, <2>3, <2>4, <2>5 DEF PublishedIsAccounted
  <1> QED BY <1>1, PublishInvariant, PTL

-----------------------------------------------------------------------------
(***************************************************************************)
(* SessionRefresh: the token on file is current unless its successor has   *)
(* not been saved, and a token not yet saved is known to one process only. *)
(***************************************************************************)

OnFile == file \notin {None, Torn}

(* Only tokens that were issued are anywhere. *)
TokensIssued ==
  /\ \A t \in live : t <= issued
  /\ OnFile => file.token <= issued
  /\ \A p \in Processes :
       /\ proc[p].old # None => proc[p].old <= issued
       /\ proc[p].new # None => proc[p].new <= issued

(* Which tokens a process has, by where it is. *)
ProcessTokens ==
  \A p \in Processes :
    /\ proc[p].pc \in {"idle", "loaded", "found"} <=> proc[p].new = None
    /\ proc[p].pc \in {"loaded", "found"} => proc[p].old \in Tokens

SessionIInv ==
  /\ SessionTypeOK
  /\ TokensIssued
  /\ ProcessTokens
  /\ UnsavedTokenIsPrivate
  /\ FileTokenIsCurrent

Procs == [pc : Pcs, old : Tokens \cup {None}, new : Tokens \cup {None},
          org : {Org, None}]

(* Before the first login there is no token. *)
LEMMA SessionInitial == SessionInit => SessionIInv
<1> SUFFICES ASSUME SessionInit PROVE SessionIInv
  OBVIOUS
<1>1. SessionTypeOK
  <2>1. NotRunning \in Procs
    BY DEF NotRunning, Procs, Pcs
  <2>2. proc \in [Processes -> Procs]
    BY <2>1 DEF SessionInit
  <2>3. issued \in 0 .. MaxTokens
    BY SessionAssumption DEF SessionInit
  <2> QED BY <2>2, <2>3 DEF SessionInit, SessionTypeOK, Procs
<1>2. TokensIssued /\ ProcessTokens /\ UnsavedTokenIsPrivate /\ FileTokenIsCurrent
  BY DEF SessionInit, NotRunning, OnFile, TokensIssued, ProcessTokens, UnsavedTokenIsPrivate,
         FileTokenIsCurrent
<1> QED BY <1>1, <1>2 DEF SessionIInv

-----------------------------------------------------------------------------
(* Each action keeps the invariant. *)

\* Load reads the token on file.
LEMMA LoadKeeps ==
  ASSUME SessionIInv, NEW p \in Processes, Load(p)
  PROVE  SessionIInv'
<1> DEFINE r == [NotRunning EXCEPT !.pc = "loaded", !.old = file.token]
<1>1. file \in Credentials /\ file.token \in Tokens /\ OnFile
  BY DEF SessionIInv, SessionTypeOK, Load, Credentials, OnFile
<1>2. /\ r \in Procs /\ r.pc = "loaded" /\ r.old = file.token /\ r.new = None
      /\ proc' = [proc EXCEPT ![p] = r]
  BY <1>1 DEF NotRunning, Procs, Pcs, Load
<1>3. file' = file /\ live' = live /\ issued' = issued /\ lost' = lost
  BY DEF Load
<1>4. proc[p].new = None
  BY DEF SessionIInv, ProcessTokens, Load, At
<1> HIDE DEF r
<1>5. SessionTypeOK'
  BY <1>2, <1>3, ZenonT(60) DEF SessionIInv, SessionTypeOK, Procs, Load
<1>6. TokensIssued'
  BY <1>1, <1>2, <1>3 DEF SessionIInv, SessionTypeOK, TokensIssued, OnFile
<1>7. ProcessTokens'
  BY <1>1, <1>2 DEF SessionIInv, SessionTypeOK, ProcessTokens
<1>8. UnsavedTokenIsPrivate'
  BY <1>1, <1>2, <1>3 DEF SessionIInv, SessionTypeOK, UnsavedTokenIsPrivate, OnFile
<1>9. FileTokenIsCurrent'
  BY <1>2, <1>3, <1>4 DEF SessionIInv, SessionTypeOK, FileTokenIsCurrent
<1> QED BY <1>5, <1>6, <1>7, <1>8, <1>9 DEF SessionIInv

\* The service finds the token a process sent.
LEMMA RefreshSelectKeeps ==
  ASSUME SessionIInv, NEW p \in Processes, RefreshSelect(p)
  PROVE  SessionIInv'
<1>1. PICK r \in Procs :
        /\ proc' = [proc EXCEPT ![p] = r]
        /\ r.new = None /\ r.pc \in {"idle", "found"}
        /\ r.pc = "found" => r.old \in Tokens
        /\ r.old \in {proc[p].old, None}
  <2>1. proc[p] \in Procs /\ proc[p].new = None /\ proc[p].old \in Tokens
    BY DEF SessionIInv, SessionTypeOK, Procs, ProcessTokens, RefreshSelect, At
  <2>2. CASE proc[p].old \in live
    <3> DEFINE k == [proc[p] EXCEPT !.pc = "found"]
    <3>1. k \in Procs /\ k.new = None /\ k.pc = "found" /\ k.old = proc[p].old
      BY <2>1 DEF Procs, Pcs
    <3>2. proc' = [proc EXCEPT ![p] = k]
      BY <2>2 DEF RefreshSelect, SessionIInv, SessionTypeOK
    <3> HIDE DEF k
    <3> QED BY <2>1, <3>1, <3>2
  <2>3. CASE proc[p].old \notin live
    <3>1. NotRunning \in Procs /\ NotRunning.new = None /\ NotRunning.old = None /\ NotRunning.pc = "idle"
      BY DEF NotRunning, Procs, Pcs
    <3> QED BY <2>3, <3>1 DEF RefreshSelect
  <2> QED BY <2>2, <2>3
<1>2. file' = file /\ live' = live /\ issued' = issued /\ lost' = lost
  BY DEF RefreshSelect
<1>3. proc[p].new = None
  BY DEF SessionIInv, ProcessTokens, RefreshSelect, At
<1>4. SessionTypeOK'
  BY <1>1, <1>2 DEF SessionIInv, SessionTypeOK, Procs, RefreshSelect
<1>5. TokensIssued'
  BY <1>1, <1>2 DEF SessionIInv, SessionTypeOK, TokensIssued, OnFile
<1>6. ProcessTokens'
  BY <1>1 DEF SessionIInv, SessionTypeOK, ProcessTokens
<1>7. UnsavedTokenIsPrivate'
  BY <1>1, <1>2, SessionAssumption DEF SessionIInv, SessionTypeOK, UnsavedTokenIsPrivate
<1>8. FileTokenIsCurrent'
  BY <1>1, <1>2, <1>3 DEF SessionIInv, SessionTypeOK, FileTokenIsCurrent
<1> QED BY <1>4, <1>5, <1>6, <1>7, <1>8 DEF SessionIInv

(* A refresh or a login that obtains a new token: nobody has it, and no token
   that others hold unsaved is deleted. *)
LEMMA NewTokenKeeps ==
  ASSUME SessionIInv, NEW p \in Processes, NEW r \in Procs,
         issued < MaxTokens, issued' = issued + 1,
         proc' = [proc EXCEPT ![p] = r],
         r.pc = "got", r.new = issued + 1, r.old \in {proc[p].old, None},
         live' = (live \ {r.old}) \cup {issued + 1},
         proc[p].new = None,
         UNCHANGED << file, loggedIn, lost >>
  PROVE  SessionIInv'
<1>1. issued \in Nat /\ issued + 1 \in Tokens
  BY SessionAssumption DEF SessionIInv, SessionTypeOK, Tokens
<1>2. SessionTypeOK'
  <2>1. issued' \in 0 .. MaxTokens
    BY <1>1, SessionAssumption
  <2>2. live' \subseteq Tokens
    BY <1>1 DEF SessionIInv, SessionTypeOK
  <2> QED BY <2>1, <2>2 DEF SessionIInv, SessionTypeOK, Procs
<1>3. \A t \in Tokens : t <= issued => t # issued + 1 /\ t <= issued'
  BY <1>1 DEF Tokens
<1>4. TokensIssued'
  <2>1. \A t \in live' : t <= issued'
    BY <1>1, <1>3 DEF SessionIInv, SessionTypeOK, TokensIssued
  <2>2. OnFile => file.token <= issued'
    BY <1>3 DEF SessionIInv, SessionTypeOK, Credentials, OnFile, TokensIssued
  <2>3. ASSUME NEW q \in Processes
        PROVE  /\ proc'[q].old # None => proc'[q].old <= issued'
               /\ proc'[q].new # None => proc'[q].new <= issued'
    BY <1>1, <1>3 DEF SessionIInv, SessionTypeOK, TokensIssued
  <2> QED BY <2>1, <2>2, <2>3 DEF TokensIssued, OnFile
<1>5. ProcessTokens'
  BY <1>1, SessionAssumption DEF SessionIInv, SessionTypeOK, ProcessTokens
<1>6. UnsavedTokenIsPrivate'
  <2> SUFFICES ASSUME NEW q \in Processes, proc'[q].new # None
               PROVE  /\ proc'[q].new \in live'
                      /\ OnFile => file.token # proc'[q].new
                      /\ \A s \in Processes \ {q} :
                           proc'[q].new \notin {proc'[s].old, proc'[s].new}
    BY DEF UnsavedTokenIsPrivate, OnFile
  <2>1. CASE q = p
    <3>1. proc'[q].new = issued + 1
      BY <2>1 DEF SessionIInv, SessionTypeOK
    <3>2. OnFile => file.token # issued + 1
      BY <1>3 DEF SessionIInv, SessionTypeOK, TokensIssued, Credentials, OnFile
    <3>3. \A s \in Processes \ {q} : issued + 1 \notin {proc'[s].old, proc'[s].new}
      BY <1>1, <1>3, <2>1, SessionAssumption DEF SessionIInv, SessionTypeOK, TokensIssued
    <3> QED BY <3>1, <3>2, <3>3
  <2>2. CASE q # p
    <3>1. proc'[q] = proc[q] /\ proc[q].new \in live /\ proc[q].new \in Tokens
      BY <2>2 DEF SessionIInv, SessionTypeOK, UnsavedTokenIsPrivate
    <3>2. proc[q].new <= issued /\ proc[q].new # issued + 1
      BY <1>3, <3>1 DEF SessionIInv, TokensIssued
    <3>3. proc[q].new # proc[p].old /\ proc[q].new # r.old
      BY <2>2, <3>1, SessionAssumption DEF SessionIInv, UnsavedTokenIsPrivate
    <3>4. OnFile => file.token # proc[q].new
      BY <3>1, SessionAssumption DEF SessionIInv, UnsavedTokenIsPrivate, OnFile
    <3>5. \A s \in Processes \ {q} : proc[q].new \notin {proc'[s].old, proc'[s].new}
      BY <2>2, <3>1, <3>2, <3>3, SessionAssumption
         DEF SessionIInv, SessionTypeOK, UnsavedTokenIsPrivate
    <3> QED BY <3>1, <3>3, <3>4, <3>5
  <2> QED BY <2>1, <2>2
<1>7. FileTokenIsCurrent'
  <2> SUFFICES ASSUME OnFile
               PROVE  \/ file.token \in live'
                      \/ \E q \in Processes :
                           proc'[q].new # None /\ proc'[q].old = file.token
                      \/ file.token \in lost
    BY DEF FileTokenIsCurrent, OnFile
  <2>1. CASE file.token = r.old
    BY <1>1, <2>1, SessionAssumption DEF SessionIInv, SessionTypeOK
  <2>2. CASE file.token \in live /\ file.token # r.old
    BY <2>2
  <2>3. CASE \E q \in Processes : proc[q].new # None /\ proc[q].old = file.token
    BY <2>3 DEF SessionIInv, SessionTypeOK
  <2> QED BY <2>1, <2>2, <2>3 DEF SessionIInv, FileTokenIsCurrent, OnFile
<1> QED BY <1>2, <1>4, <1>5, <1>6, <1>7 DEF SessionIInv

\* The exchange gives the process a token of its own.
LEMMA RefreshCommitKeeps ==
  ASSUME SessionIInv, NEW p \in Processes, RefreshCommit(p)
  PROVE  SessionIInv'
<1> DEFINE r == [proc[p] EXCEPT !.pc = "got", !.new = issued + 1]
<1>1. proc[p] \in Procs /\ proc[p].new = None /\ proc[p].old \in Tokens
  BY DEF SessionIInv, SessionTypeOK, Procs, ProcessTokens, RefreshCommit, At
<1>2. issued \in Nat /\ issued < MaxTokens /\ issued + 1 \in Tokens
  BY SessionAssumption DEF SessionIInv, SessionTypeOK, Tokens, RefreshCommit
<1>3. r \in Procs /\ r.pc = "got" /\ r.new = issued + 1 /\ r.old = proc[p].old
  BY <1>1, <1>2 DEF Procs, Pcs
<1>4. proc' = [proc EXCEPT ![p] = r]
  BY DEF RefreshCommit, SessionIInv, SessionTypeOK
<1> HIDE DEF r
<1> QED BY <1>1, <1>2, <1>3, <1>4, NewTokenKeeps DEF RefreshCommit

\* So does a login.
LEMMA LoginKeeps ==
  ASSUME SessionIInv, NEW p \in Processes, NEW org \in OrgAnswers, Login(p, org)
  PROVE  SessionIInv'
<1> DEFINE r == [NotRunning EXCEPT !.pc = "got", !.new = issued + 1, !.org = org]
<1>1. issued \in Nat /\ issued < MaxTokens /\ issued + 1 \in Tokens
  BY SessionAssumption DEF SessionIInv, SessionTypeOK, Tokens, Login
<1>2. r \in Procs /\ r.pc = "got" /\ r.new = issued + 1 /\ r.old = None
  BY <1>1, SessionAssumption DEF NotRunning, Procs, Pcs
<1>3. proc' = [proc EXCEPT ![p] = r] /\ proc[p].new = None
  BY DEF Login, At, SessionIInv, ProcessTokens
<1>4. live' = (live \ {r.old}) \cup {issued + 1}
  BY <1>2, SessionAssumption DEF Login, SessionIInv, SessionTypeOK
<1> HIDE DEF r
<1> QED BY <1>1, <1>2, <1>3, <1>4, NewTokenKeeps DEF Login, SessionIInv, SessionTypeOK

\* Logout removes the file.
LEMMA LogoutKeeps ==
  ASSUME SessionIInv, Logout
  PROVE  SessionIInv'
<1>1. ASSUME NEW q \in Processes
      PROVE  /\ proc'[q] \in Procs
             /\ proc'[q].old = proc[q].old /\ proc'[q].new = proc[q].new
             /\ \/ proc'[q].pc = proc[q].pc
                \/ proc[q].pc = "truncated" /\ proc'[q].pc = "unlinked"
  BY DEF SessionIInv, SessionTypeOK, Procs, Pcs, Logout, At
<1>2. SessionTypeOK'
  <2>1. proc' \in [Processes -> Procs]
    BY <1>1 DEF Logout
  <2> QED BY <2>1 DEF SessionIInv, SessionTypeOK, Procs, Logout
<1>3. TokensIssued'
  BY <1>1 DEF SessionIInv, Logout, TokensIssued, OnFile
<1>4. ProcessTokens'
  BY <1>1 DEF SessionIInv, ProcessTokens
<1>5. UnsavedTokenIsPrivate' /\ FileTokenIsCurrent'
  BY <1>1 DEF SessionIInv, Logout, UnsavedTokenIsPrivate, FileTokenIsCurrent
<1> QED BY <1>2, <1>3, <1>4, <1>5 DEF SessionIInv

\* Save cuts the file off first.
LEMMA SaveTruncateKeeps ==
  ASSUME SessionIInv, NEW p \in Processes, SaveTruncate(p)
  PROVE  SessionIInv'
<1> DEFINE r == [proc[p] EXCEPT !.pc = "truncated"]
<1>1. proc[p] \in Procs /\ proc[p].new # None
  BY DEF SessionIInv, SessionTypeOK, Procs, ProcessTokens, SaveTruncate, At
<1>2. r \in Procs /\ r.pc = "truncated" /\ r.new = proc[p].new /\ r.old = proc[p].old
  BY <1>1 DEF Procs, Pcs
<1>3. proc' = [proc EXCEPT ![p] = r] /\ file' = Torn
  BY DEF SaveTruncate, SessionIInv, SessionTypeOK
<1>4. live' = live /\ issued' = issued /\ lost' = lost
  BY DEF SaveTruncate
<1> HIDE DEF r
<1>5. SessionTypeOK'
  BY <1>2, <1>3, <1>4 DEF SessionIInv, SessionTypeOK, Procs, SaveTruncate
<1>6. TokensIssued'
  BY <1>2, <1>3, <1>4 DEF SessionIInv, SessionTypeOK, TokensIssued, OnFile
<1>7. ProcessTokens'
  BY <1>1, <1>2, <1>3 DEF SessionIInv, SessionTypeOK, ProcessTokens
<1>8. UnsavedTokenIsPrivate'
  BY <1>2, <1>3, <1>4 DEF SessionIInv, SessionTypeOK, UnsavedTokenIsPrivate
<1>9. FileTokenIsCurrent'
  BY <1>3 DEF FileTokenIsCurrent
<1> QED BY <1>5, <1>6, <1>7, <1>8, <1>9 DEF SessionIInv

\* Save writes a token that nobody else has.
LEMMA SaveWriteKeeps ==
  ASSUME SessionIInv, NEW p \in Processes, SaveWrite(p)
  PROVE  SessionIInv'
<1> DEFINE c == [token |-> proc[p].new, org |-> proc[p].org]
<1>1. proc[p] \in Procs /\ proc[p].new \in Tokens /\ proc[p].new # None
  BY SessionAssumption DEF SessionIInv, SessionTypeOK, Procs, ProcessTokens, SaveWrite, At
<1>2. c \in Credentials /\ c.token = proc[p].new
  BY <1>1 DEF Credentials, Procs
<1>3. file' \in {c, Torn} /\ proc' = [proc EXCEPT ![p] = NotRunning]
  BY DEF SaveWrite
<1>4. NotRunning \in Procs /\ NotRunning.new = None /\ NotRunning.old = None /\ NotRunning.pc = "idle"
  BY DEF NotRunning, Procs, Pcs
<1>5. live' = live /\ issued' = issued /\ lost' = lost
  BY DEF SaveWrite
<1> HIDE DEF c
<1>6. SessionTypeOK'
  <2>1. loggedIn' \in BOOLEAN
    BY DEF SaveWrite
  <2> QED BY <1>2, <1>3, <1>4, <1>5, <2>1 DEF SessionIInv, SessionTypeOK, Procs, SaveWrite
<1>7. TokensIssued'
  BY <1>1, <1>2, <1>3, <1>4, <1>5 DEF SessionIInv, SessionTypeOK, TokensIssued, OnFile
<1>8. ProcessTokens'
  BY <1>3, <1>4 DEF SessionIInv, SessionTypeOK, ProcessTokens
<1>9. UnsavedTokenIsPrivate'
  BY <1>1, <1>2, <1>3, <1>4, <1>5, SessionAssumption
     DEF SessionIInv, SessionTypeOK, UnsavedTokenIsPrivate
<1>10. FileTokenIsCurrent'
  BY <1>1, <1>2, <1>3, <1>5 DEF SessionIInv, FileTokenIsCurrent, UnsavedTokenIsPrivate
<1> QED BY <1>6, <1>7, <1>8, <1>9, <1>10 DEF SessionIInv

\* A process that is cut off loses the token it had not saved.
LEMMA CutKeeps ==
  ASSUME SessionIInv, NEW p \in Processes, Cut(p)
  PROVE  SessionIInv'
<1>1. proc' = [proc EXCEPT ![p] = NotRunning]
  BY DEF Cut
<1>2. NotRunning \in Procs /\ NotRunning.new = None /\ NotRunning.old = None /\ NotRunning.pc = "idle"
  BY DEF NotRunning, Procs, Pcs
<1>3. file' = file /\ live' = live /\ issued' = issued
  BY DEF Cut
<1>4. SessionTypeOK'
  <2>1. lost' \subseteq Tokens
    BY DEF Cut, SessionIInv, SessionTypeOK
  <2> QED BY <1>1, <1>2, <1>3, <2>1 DEF SessionIInv, SessionTypeOK, Procs, Cut
<1>5. TokensIssued'
  BY <1>1, <1>2, <1>3 DEF SessionIInv, SessionTypeOK, TokensIssued, OnFile
<1>6. ProcessTokens'
  BY <1>1, <1>2 DEF SessionIInv, SessionTypeOK, ProcessTokens
<1>7. UnsavedTokenIsPrivate'
  BY <1>1, <1>2, <1>3, SessionAssumption DEF SessionIInv, SessionTypeOK, UnsavedTokenIsPrivate
<1>8. FileTokenIsCurrent'
  <2> SUFFICES ASSUME OnFile
               PROVE  \/ file.token \in live
                      \/ \E q \in Processes :
                           proc'[q].new # None /\ proc'[q].old = file.token
                      \/ file.token \in lost'
    BY <1>3 DEF FileTokenIsCurrent, OnFile
  <2>1. file.token \in Tokens /\ file.token # None /\ lost \subseteq lost'
    BY SessionAssumption DEF SessionIInv, SessionTypeOK, Credentials, OnFile, Cut
  <2>2. ASSUME NEW q \in Processes, proc[q].new # None, proc[q].old = file.token
        PROVE  \/ proc'[q].new # None /\ proc'[q].old = file.token
               \/ file.token \in lost'
    BY <1>1, <2>1, <2>2 DEF SessionIInv, SessionTypeOK, Cut
  <2> QED BY <2>1, <2>2 DEF SessionIInv, FileTokenIsCurrent, OnFile
<1> QED BY <1>4, <1>5, <1>6, <1>7, <1>8 DEF SessionIInv

-----------------------------------------------------------------------------
\* Every step keeps the invariant.
LEMMA SessionStep == SessionIInv /\ [SessionNext]_sessionVars => SessionIInv'
<1> SUFFICES ASSUME SessionIInv, [SessionNext]_sessionVars PROVE SessionIInv'
  OBVIOUS
<1>1. CASE SessionNext
  BY <1>1, LoadKeeps, RefreshSelectKeeps, RefreshCommitKeeps,
     LoginKeeps, LogoutKeeps, SaveTruncateKeeps, SaveWriteKeeps,
     CutKeeps DEF SessionNext
<1>2. CASE UNCHANGED sessionVars
  BY <1>2 DEF sessionVars, SessionIInv, SessionTypeOK, TokensIssued, ProcessTokens, OnFile,
              UnsavedTokenIsPrivate, FileTokenIsCurrent
<1> QED BY <1>1, <1>2

(* The inductive invariant holds of every behaviour of the session. *)
THEOREM SessionInvariant == SessionSpec => []SessionIInv
<1> QED BY SessionInitial, SessionStep, PTL DEF SessionSpec

(* The session's state keeps its types. *)
THEOREM SessionTypes == SessionSpec => []SessionTypeOK
<1>1. SessionIInv => SessionTypeOK
  BY DEF SessionIInv
<1> QED BY <1>1, SessionInvariant, PTL

(* EnsureFresh and login never put back a token that was rotated away. *)
THEOREM TokenOnFileCurrent == SessionSpec => []FileTokenIsCurrent
<1>1. SessionIInv => FileTokenIsCurrent
  BY DEF SessionIInv
<1> QED BY <1>1, SessionInvariant, PTL

(* A token between the service's commit and Save has one owner. *)
THEOREM UnsavedPrivate == SessionSpec => []UnsavedTokenIsPrivate
<1>1. SessionIInv => UnsavedTokenIsPrivate
  BY DEF SessionIInv
<1> QED BY <1>1, SessionInvariant, PTL
-----------------------------------------------------------------------------
(***************************************************************************)
(* MCComponents: whatever component runs, a behaviour of the composition is*)
(* one of each component, so that what is proved of the components holds of*)
(* it.                                                                     *)
(***************************************************************************)

\* A step of the composition is a step of a component or leaves it alone.
LEMMA PartMoves ==
  ASSUME [Next]_allVars
  PROVE  /\ [TrackerNext]_trackerVars
         /\ [ProfilerNext]_profilerVars
         /\ [ModelNext]_modelVars
         /\ [McpNext]_mcpVars
         /\ [OrgNext]_orgVars
         /\ [ReportNext]_reportVars
         /\ [UpdateNext]_updateVars
         /\ [ReleaseNext]_releaseVars
         /\ [PublishNext]_publishVars
         /\ [SessionNext]_sessionVars
         /\ [ThreatNext]_threatVars
         /\ [OtpNext]_otpVars
         /\ [MembershipNext]_membershipVars
         /\ [SeatNext]_seatVars
  BY DEF Next, Step, allVars

(* Every behaviour of the composition is a behaviour of each component. *)
THEOREM PartsRun ==
  Spec => /\ TrackerSpec
          /\ ProfilerSpec
          /\ ModelSpec
          /\ McpSpec
          /\ OrgSpec
          /\ ReportSpec
          /\ UpdateSpec
          /\ ReleaseSpec
          /\ PublishSpec
          /\ SessionSpec
          /\ ThreatSpec
          /\ OtpSpec
          /\ MembershipSpec
          /\ SeatSpec
  <1>1. Init => /\ TrackerInit /\ ProfilerInit /\ ModelInit /\ McpInit
                /\ OrgInit /\ ReportInit /\ UpdateInit /\ ReleaseInit
                /\ PublishInit /\ SessionInit /\ ThreatInit /\ OtpInit
                /\ MembershipInit /\ SeatInit
    BY DEF Init
  <1> QED
    BY <1>1, PartMoves, PTL
    DEF Spec, TrackerSpec, ProfilerSpec, ModelSpec, McpSpec, OrgSpec,
        ReportSpec, UpdateSpec, ReleaseSpec, PublishSpec, SessionSpec,
        ThreatSpec, OtpSpec, MembershipSpec, SeatSpec

(* The components keep the types of their state, for any number of requests,
   processes and servers and any bounds. *)
THEOREM PartTypes == Spec => []TypeOK
  <1>1. TrackerSpec => []TrackerTypeOK
    <2>1. TrackerIInv => TrackerTypeOK
      BY DEF TrackerIInv
    <2> QED BY <2>1, TrackerInitial, TrackerStep, PTL DEF TrackerSpec
  <1>2. ModelSpec => []ModelTypeOK
    <2>1. ModelIInv => ModelTypeOK
      BY DEF ModelIInv
    <2> QED BY <2>1, ModelInitial, ModelStep, PTL DEF ModelSpec
  <1>3. OrgSpec => []OrgTypeOK
    <2>1. OrgIInv => OrgTypeOK
      BY DEF OrgIInv
    <2> QED BY <2>1, OrgInitial, OrgStep, PTL DEF OrgSpec
  <1>4. ReportSpec => []ReportTypeOK
    <2>1. ReportIInv => ReportTypeOK
      BY DEF ReportIInv
    <2> QED BY <2>1, ReportInitial, ReportStep, PTL DEF ReportSpec
  <1>5. UpdateSpec => []UpdateTypeOK
    <2>1. UpdateIInv => UpdateTypeOK
      BY DEF UpdateIInv
    <2> QED BY <2>1, UpdateInitial, UpdateStep, PTL DEF UpdateSpec
  <1>6. ReleaseSpec => []ReleaseTypeOK
    <2>1. ReleaseIInv => ReleaseTypeOK
      BY DEF ReleaseIInv
    <2> QED BY <2>1, ReleaseInitial, ReleaseStep, PTL DEF ReleaseSpec
  <1>7. Spec => [](part \in Parts)
    <2>1. Init => part \in Parts
      BY DEF Init
    <2>2. part \in Parts /\ [Next]_allVars => (part \in Parts)'
      BY DEF Next, Step, allVars
    <2> QED BY <2>1, <2>2, PTL DEF Spec
  <1>8. /\ TrackerTypeOK /\ ProfilerTypeOK /\ ModelTypeOK /\ McpTypeOK
        /\ OrgTypeOK /\ ReportTypeOK /\ UpdateTypeOK /\ ReleaseTypeOK
        /\ PublishTypeOK /\ SessionTypeOK /\ ThreatTypeOK /\ OtpTypeOK
        /\ MembershipTypeOK /\ SeatTypeOK
        /\ part \in Parts
        => TypeOK
    BY DEF Parts, TypeOK
  <1> QED
    BY <1>1, <1>2, <1>3, <1>4, <1>5, <1>6, <1>7, <1>8, PartsRun, ProfilesBounded,
       McpTypesHold, PublishTypes, SessionTypes, ThreatTypes, OtpTypes,
       MembershipTypes, SeatBillingTypes, PTL
=============================================================================
