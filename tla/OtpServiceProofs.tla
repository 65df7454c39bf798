-------------------------- MODULE OtpServiceProofs --------------------------
(***************************************************************************)
(* Theorems about OtpService, for every value of its constants: what holds *)
(* however many requests overlap (from ConcurrentInv), and what holds when *)
(* they are served one at a time (from SerialInv besides).                 *)
(***************************************************************************)
EXTENDS OtpService, FiniteSetTheorems, TLAPS

\* Every read that starts a transaction is a Begin with one of these records;
\* a refusal changes nothing.
LEMMA ReadsBegin ==
    ASSUME TypeOK, NEW r \in Requests, Read(r)
    PROVE  \/ UNCHANGED vars
           \/ \E txn \in RequestState :
                 /\ Begin(r, txn)
                 /\ txn.pc = "open"
                 /\ txn.chan \in Channels
                 /\ \/ /\ txn.op \in Issues \union {"reset"}
                       /\ txn.revokes = Active(txn.chan)
                       /\ txn.op \in Issues => txn.at = now
                       /\ txn.op = "cookie" => ~CoolingDown(txn.chan) /\ ~CapReached(txn.chan)
                    \/ /\ txn.target \in Active(txn.chan)
                       /\ txn.op = "right"
                       /\ txn.revokes = {txn.target}
                    \/ /\ txn.target \in Active(txn.chan)
                       /\ txn.op = "wrong"
                       /\ txn.attempts = attempts[txn.target] + 1
                       /\ txn.revokes = IF txn.attempts >= MaxAttempts
                                        THEN {txn.target} ELSE {}
<1> USE ConstantsAssumption
<1>1. /\ Idle \in RequestState
      /\ \A c \in Channels : Active(c) \subseteq Otps
      /\ \A c \in Channels : Newest(Active(c)) \subseteq Active(c)
  BY DEF Idle, RequestState, Ops, Active, Newest, Rows
<1>2. ASSUME NEW c \in Channels, NEW how \in Issues, IssueRead(r, c, how),
             how = "cookie" => ~CoolingDown(c) /\ ~CapReached(c)
      PROVE  \E txn \in RequestState :
                 /\ Begin(r, txn) /\ txn.pc = "open" /\ txn.chan \in Channels
                 /\ txn.op \in Issues /\ txn.at = now
                 /\ txn.op = "cookie" => ~CoolingDown(txn.chan) /\ ~CapReached(txn.chan)
                 /\ txn.revokes = Active(txn.chan)
  <2> DEFINE txn == [Idle EXCEPT !.op = how, !.pc = "open", !.chan = c, !.at = now,
                                 !.revokes = Active(c)]
  <2>1. /\ txn \in RequestState /\ txn.pc = "open" /\ txn.chan = c
        /\ txn.op = how /\ txn.revokes = Active(c) /\ txn.at = now
    BY <1>1 DEF Idle, RequestState, Ops, Issues, TypeOK
  <2>2. Begin(r, txn)
    BY <1>2 DEF IssueRead
  <2> HIDE DEF txn
  <2>3. QED
    BY <1>2, <2>1, <2>2
<1>3. ASSUME NEW c \in Channels, ResetRead(r, c)
      PROVE  \E txn \in RequestState :
                 /\ Begin(r, txn) /\ txn.pc = "open" /\ txn.chan \in Channels
                 /\ txn.op = "reset"
                 /\ txn.revokes = Active(txn.chan)
  <2> DEFINE txn == [Idle EXCEPT !.op = "reset", !.pc = "open", !.chan = c,
                                 !.revokes = Active(c)]
  <2>1. /\ txn \in RequestState /\ txn.pc = "open" /\ txn.chan = c
        /\ txn.op = "reset" /\ txn.revokes = Active(c)
    BY <1>1 DEF Idle, RequestState, Ops, Issues, TypeOK
  <2>2. Begin(r, txn)
    BY <1>3 DEF ResetRead
  <2> HIDE DEF txn
  <2>3. QED
    BY <2>1, <2>2
<1>4. ASSUME NEW c \in Channels, NEW t, RightRead(r, c, t)
      PROVE  \E txn \in RequestState :
                 /\ Begin(r, txn) /\ txn.pc = "open" /\ txn.chan \in Channels
                 /\ txn.target \in Active(txn.chan)
                 /\ txn.op = "right" /\ txn.revokes = {txn.target}
  <2>1. PICK o \in Newest(Active(c)) :
            Begin(r, [Idle EXCEPT !.op = "right", !.pc = "open", !.chan = c,
                                  !.target = o, !.revokes = {o}])
    BY <1>4 DEF RightRead
  <2> DEFINE txn == [Idle EXCEPT !.op = "right", !.pc = "open", !.chan = c,
                                 !.target = o, !.revokes = {o}]
  <2>2. o \in Active(c) /\ o \in Otps
    BY <1>1
  <2>3. /\ txn \in RequestState /\ txn.pc = "open" /\ txn.chan = c
        /\ txn.op = "right" /\ txn.revokes = {o} /\ txn.target = o
    BY <2>2 DEF Idle, RequestState, Ops, Issues
  <2>4. Begin(r, txn)
    BY <2>1
  <2> HIDE DEF txn
  <2>5. QED
    BY <2>2, <2>3, <2>4
<1>5. ASSUME NEW c \in Channels, NEW t, WrongRead(r, c, t)
      PROVE  \E txn \in RequestState :
                 /\ Begin(r, txn) /\ txn.pc = "open" /\ txn.chan \in Channels
                 /\ txn.target \in Active(txn.chan)
                 /\ txn.op = "wrong"
                 /\ txn.attempts = attempts[txn.target] + 1
                 /\ txn.revokes = IF txn.attempts >= MaxAttempts
                                  THEN {txn.target} ELSE {}
  <2>1. PICK o \in Newest(Active(c)) :
            Begin(r, [Idle EXCEPT !.op = "wrong", !.pc = "open", !.chan = c, !.target = o,
                                  !.attempts = attempts[o] + 1,
                                  !.revokes = IF attempts[o] + 1 >= MaxAttempts
                                              THEN {o} ELSE {}])
    BY <1>5 DEF WrongRead
  <2> DEFINE txn == [Idle EXCEPT !.op = "wrong", !.pc = "open", !.chan = c, !.target = o,
                                 !.attempts = attempts[o] + 1,
                                 !.revokes = IF attempts[o] + 1 >= MaxAttempts
                                             THEN {o} ELSE {}]
  <2>2. o \in Active(c) /\ o \in Otps /\ attempts[o] + 1 \in Nat
    BY <1>1 DEF TypeOK
  <2>3. /\ txn \in RequestState /\ txn.pc = "open" /\ txn.chan = c
        /\ txn.op = "wrong" /\ txn.target = o /\ txn.attempts = attempts[o] + 1
        /\ txn.revokes = IF attempts[o] + 1 >= MaxAttempts THEN {o} ELSE {}
    BY <2>2 DEF Idle, RequestState, Ops, Issues
  <2>4. Begin(r, txn)
    BY <2>1
  <2> HIDE DEF txn
  <2>5. QED
    BY <2>2, <2>3, <2>4
<1>6. ASSUME NEW c \in Channels, ResendRead(r, c)
      PROVE  IssueRead(r, c, "cookie") /\ ~CoolingDown(c) /\ ~CapReached(c)
  BY <1>6 DEF ResendRead
<1>7. ASSUME NEW c \in Channels, ResendRefused(r, c) PROVE UNCHANGED vars
  BY <1>7 DEF ResendRefused
<1>8. ASSUME NEW c \in Channels, NEW t, VerifyRefused(r, c, t) PROVE UNCHANGED vars
  BY <1>8 DEF VerifyRefused
<1>9. QED
  BY <1>2, <1>3, <1>4, <1>5, <1>6, <1>7, <1>8 DEF Read, Issues

----------------------------------------------------------------------------

\* No more requests match a code than there are.
LEMMA MatchingFinite ==
    ASSUME NEW S, S \subseteq Requests
    PROVE  IsFiniteSet(S) /\ Cardinality(S) \in Nat /\ Cardinality(S) <= Cardinality(Requests)
BY ConstantsAssumption, FS_Subset, FS_CardinalityType

LEMMA ConcurrentInit == Init => ConcurrentInv
<1> SUFFICES ASSUME Init PROVE ConcurrentInv
  OBVIOUS
<1> USE ConstantsAssumption
<1>1. TypeOK
  BY DEF Init, TypeOK, Idle, RequestState, Ops, Issues
<1>2. WritesFit /\ SpentStaysRevoked
  BY DEF Init, WritesFit, SpentStaysRevoked, Idle
<1>3. ASSUME NEW o \in Otps PROVE used[o] + Cardinality(Matching(o)) <= Cardinality(Requests)
  <2>1. Matching(o) \subseteq Requests
    BY DEF Matching
  <2>2. used[o] = 0
    BY DEF Init
  <2>3. QED
    BY <2>1, <2>2, MatchingFinite
<1>4. QED
  BY <1>1, <1>2, <1>3 DEF ConcurrentInv, UsesFit

\* A transaction that a read starts keeps the invariant.
LEMMA ConcurrentBegin ==
    ASSUME ConcurrentInv, NEW r \in Requests, Read(r)
    PROVE  ConcurrentInv'
<1> USE ConstantsAssumption
<1>1. TypeOK /\ WritesFit /\ SpentStaysRevoked /\ UsesFit
  BY DEF ConcurrentInv
<1>2. CASE UNCHANGED vars
  BY <1>1, <1>2 DEF vars, ConcurrentInv, TypeOK, WritesFit, SpentStaysRevoked, UsesFit,
                    Matching
<1>3. ASSUME NEW txn \in RequestState, Begin(r, txn), txn.pc = "open",
             txn.chan \in Channels,
             \/ txn.op \in Issues \union {"reset"}
             \/ /\ txn.target \in Active(txn.chan)
                /\ txn.op = "right" /\ txn.revokes = {txn.target}
             \/ /\ txn.target \in Active(txn.chan)
                /\ txn.op = "wrong"
                /\ txn.revokes = IF txn.attempts >= MaxAttempts THEN {txn.target} ELSE {}
      PROVE  ConcurrentInv'
  <2>1. /\ req[r].pc = "idle"
        /\ req' = [req EXCEPT ![r] = txn]
        /\ UNCHANGED <<now, chan, via, created, revoked, attempts, used, guessed>>
    BY <1>3 DEF Begin
  <2>2. /\ req' \in [Requests -> RequestState]
        /\ \A s \in Requests : req'[s] = IF s = r THEN txn ELSE req[s]
    BY <1>1, <1>3, <2>1 DEF TypeOK
  <2>3. TypeOK'
    BY <1>1, <2>1, <2>2 DEF TypeOK
  <2>4. WritesFit'
    BY <1>1, <1>3, <2>2 DEF WritesFit, Active, Rows, Issues
  <2>5. SpentStaysRevoked'
    BY <1>1, <2>1 DEF SpentStaysRevoked
  <2>6. ASSUME NEW o \in Otps
        PROVE  used'[o] + Cardinality(Matching(o)') <= Cardinality(Requests)
    <3>1. CASE txn.op = "right" /\ txn.target = o
      <4>1. used[o] = 0
        BY <1>1, <1>3, <3>1 DEF Active, SpentStaysRevoked, TypeOK, Issues
      <4>2. Matching(o)' \subseteq Requests
        BY DEF Matching
      <4>3. Cardinality(Matching(o)') \in Nat /\ Cardinality(Matching(o)') <= Cardinality(Requests)
        BY <4>2, MatchingFinite
      <4>4. QED
        BY <2>1, <4>1, <4>3
    <3>2. CASE ~(txn.op = "right" /\ txn.target = o)
      <4>1. Matching(o)' = Matching(o)
        BY <2>1, <2>2, <3>2 DEF Matching
      <4>2. QED
        BY <1>1, <2>1, <4>1 DEF UsesFit
    <3>3. QED
      BY <3>1, <3>2
  <2>7. QED
    BY <2>3, <2>4, <2>5, <2>6 DEF ConcurrentInv, UsesFit
<1>4. QED
  BY <1>1, <1>2, <1>3, ReadsBegin

\* What a commit does to the rows.
LEMMA CommitRows ==
    ASSUME TypeOK, WritesFit, NEW r \in Requests, Commit(r)
    PROVE  /\ req[r].pc = "open" /\ req[r] \in RequestState
           /\ now' = now /\ revoked' = revoked \union req[r].revokes
           /\ \A s \in Requests : req'[s] = IF s = r THEN Idle ELSE req[s]
           /\ \A o \in Otps :
                 /\ attempts'[o] = IF req[r].op = "wrong" /\ o = req[r].target
                                   THEN req[r].attempts ELSE attempts[o]
                 /\ used'[o] = used[o] + Hit(r, "right", o)
                 /\ guessed'[o] = guessed[o] + Hit(r, "wrong", o)
           /\ \/ /\ req[r].op \notin Issues
                 /\ UNCHANGED <<chan, via, created>>
              \/ /\ req[r].op \in Issues
                 /\ \E n \in Rows(NoChannel) : Insert(r, n)
           /\ TypeOK'
<1> USE ConstantsAssumption
<1>1. req[r] \in RequestState
  BY DEF TypeOK
<1>2. req[r].pc = "open" /\ now' = now /\ revoked' = revoked \union req[r].revokes
  BY DEF Commit
<1>3. /\ \A s \in Requests : req'[s] = IF s = r THEN Idle ELSE req[s]
      /\ req' \in [Requests -> RequestState]
  <2>1. Idle \in RequestState
    BY DEF Idle, RequestState, Ops, Issues
  <2>2. req' = [req EXCEPT ![r] = Idle]
    BY DEF Commit
  <2>3. QED
    BY <2>1, <2>2 DEF TypeOK
<1>4. ASSUME NEW o \in Otps
      PROVE  attempts'[o] = IF req[r].op = "wrong" /\ o = req[r].target
                            THEN req[r].attempts ELSE attempts[o]
  BY <1>2 DEF Commit, AttemptsAfter, WritesFit, TypeOK
<1>5. attempts' \in [Otps -> Nat]
  BY <1>1, <1>2 DEF Commit, AttemptsAfter, WritesFit, TypeOK, RequestState
<1>6. /\ used' = [o \in Otps |-> used[o] + Hit(r, "right", o)]
      /\ guessed' = [o \in Otps |-> guessed[o] + Hit(r, "wrong", o)]
  BY DEF Commit
<1>7. used' \in [Otps -> Nat] /\ guessed' \in [Otps -> Nat]
  BY <1>6 DEF Hit, TypeOK
<1>8. CASE req[r].op \notin Issues
  <2>1. UNCHANGED <<chan, via, created>>
    BY <1>8 DEF Commit
  <2>2. TypeOK'
    BY <1>1, <1>2, <1>3, <1>5, <1>7, <2>1 DEF TypeOK, RequestState
  <2>3. QED
    BY <1>1, <1>2, <1>3, <1>4, <1>6, <1>8, <2>1, <2>2
<1>9. CASE req[r].op \in Issues
  <2>1. PICK n \in Rows(NoChannel) : Insert(r, n)
    BY <1>9 DEF Commit
  <2>2. chan' \in [Otps -> Channels \union {NoChannel}] /\ via' \in [Otps -> Issues]
        /\ created' \in [Otps -> Nat]
    BY <1>1, <1>9, <2>1 DEF Insert, TypeOK, RequestState
  <2>3. TypeOK'
    BY <1>1, <1>2, <1>3, <1>5, <1>7, <2>2 DEF TypeOK, RequestState
  <2>4. QED
    BY <1>1, <1>2, <1>3, <1>4, <1>6, <1>9, <2>1, <2>3
<1>10. QED
  BY <1>8, <1>9

LEMMA ConcurrentCommit ==
    ASSUME ConcurrentInv, NEW r \in Requests, Commit(r)
    PROVE  ConcurrentInv'
<1> USE ConstantsAssumption
<1>1. TypeOK /\ WritesFit /\ SpentStaysRevoked /\ UsesFit
  BY DEF ConcurrentInv
<1>2. /\ req[r].pc = "open" /\ req[r] \in RequestState /\ TypeOK'
      /\ revoked' = revoked \union req[r].revokes
      /\ \A s \in Requests : req'[s] = IF s = r THEN Idle ELSE req[s]
      /\ \A o \in Otps : attempts'[o] = IF req[r].op = "wrong" /\ o = req[r].target
                                        THEN req[r].attempts ELSE attempts[o]
      /\ \A o \in Otps : used'[o] = used[o] + Hit(r, "right", o)
  BY <1>1, CommitRows
<1>3. WritesFit'
  BY <1>1, <1>2 DEF WritesFit, Idle
<1>4. SpentStaysRevoked'
  BY <1>1, <1>2 DEF SpentStaysRevoked, WritesFit, Hit, TypeOK
<1>5. ASSUME NEW o \in Otps
      PROVE  used'[o] + Cardinality(Matching(o)') <= Cardinality(Requests)
  <2>1. Matching(o)' = Matching(o) \ {r}
    BY <1>2 DEF Matching, Idle
  <2>2. Matching(o) \subseteq Requests
    BY DEF Matching
  <2>3. IsFiniteSet(Matching(o)) /\ Cardinality(Matching(o)) \in Nat
    BY <2>2, MatchingFinite
  <2>4. CASE r \in Matching(o)
    <3>1. Hit(r, "right", o) = 1
      BY <2>4 DEF Matching, Hit
    <3>2. Cardinality(Matching(o)') = Cardinality(Matching(o)) - 1
      BY <2>1, <2>3, <2>4, FS_RemoveElement, SMTT(30), ZenonT(30)
    <3>3. Cardinality(Requests) \in Nat /\ used[o] \in Nat
      BY <1>1, FS_CardinalityType DEF TypeOK
    <3>4. used[o] + Cardinality(Matching(o)) <= Cardinality(Requests)
      BY <1>1 DEF UsesFit
    <3>5. QED
      BY <1>2, <2>3, <3>1, <3>2, <3>3, <3>4
  <2>5. CASE r \notin Matching(o)
    <3>1. Hit(r, "right", o) = 0
      BY <1>2, <2>5 DEF Matching, Hit
    <3>2. Matching(o)' = Matching(o)
      BY <2>1, <2>5
    <3>3. used[o] \in Nat
      BY <1>1 DEF TypeOK
    <3>4. QED
      BY <1>1, <1>2, <3>1, <3>2, <3>3 DEF UsesFit
  <2>6. QED
    BY <2>4, <2>5
<1>6. QED
  BY <1>2, <1>3, <1>4, <1>5 DEF ConcurrentInv, UsesFit

LEMMA ConcurrentRollback ==
    ASSUME ConcurrentInv, NEW r \in Requests, Rollback(r)
    PROVE  ConcurrentInv'
<1> USE ConstantsAssumption
<1>1. TypeOK /\ WritesFit /\ SpentStaysRevoked /\ UsesFit
  BY DEF ConcurrentInv
<1>2. /\ UNCHANGED <<now, chan, via, created, revoked, attempts, used, guessed>>
      /\ \A s \in Requests : req'[s] = IF s = r THEN Idle ELSE req[s]
      /\ req' \in [Requests -> RequestState]
  BY <1>1 DEF Rollback, TypeOK, Idle, RequestState, Ops
<1>3. TypeOK'
  BY <1>1, <1>2 DEF TypeOK
<1>4. WritesFit'
  BY <1>1, <1>2 DEF WritesFit, Idle
<1>5. SpentStaysRevoked'
  BY <1>1, <1>2 DEF SpentStaysRevoked
<1>6. ASSUME NEW o \in Otps
      PROVE  used'[o] + Cardinality(Matching(o)') <= Cardinality(Requests)
  <2>1. Matching(o)' \subseteq Matching(o) /\ Matching(o) \subseteq Requests
    BY <1>2 DEF Matching, Idle
  <2>2. IsFiniteSet(Matching(o)) /\ Cardinality(Matching(o)) \in Nat
    BY <2>1, MatchingFinite
  <2>3. /\ Cardinality(Matching(o)') \in Nat
        /\ Cardinality(Matching(o)') <= Cardinality(Matching(o))
    BY <2>1, <2>2, FS_Subset, FS_CardinalityType
  <2>4. Cardinality(Requests) \in Nat /\ used[o] \in Nat
    BY <1>1, FS_CardinalityType DEF TypeOK
  <2>5. QED
    BY <1>1, <1>2, <2>2, <2>3, <2>4 DEF UsesFit
<1>7. QED
  BY <1>3, <1>4, <1>5, <1>6 DEF ConcurrentInv, UsesFit

LEMMA ConcurrentInvariance == Spec => []ConcurrentInv
<1>1. ConcurrentInv /\ [Next]_vars => ConcurrentInv'
  <2> SUFFICES ASSUME ConcurrentInv, [Next]_vars PROVE ConcurrentInv'
    OBVIOUS
  <2>1. ASSUME NEW r \in Requests, Read(r) PROVE ConcurrentInv'
    BY <2>1, ConcurrentBegin
  <2>2. ASSUME NEW r \in Requests, Commit(r) PROVE ConcurrentInv'
    BY <2>2, ConcurrentCommit
  <2>3. ASSUME NEW r \in Requests, Rollback(r) PROVE ConcurrentInv'
    BY <2>3, ConcurrentRollback
  <2>4. CASE Tick
    BY <2>4 DEF Tick, ConcurrentInv, TypeOK, WritesFit, SpentStaysRevoked, UsesFit, Matching
  <2>5. CASE UNCHANGED vars
    BY <2>5 DEF vars, ConcurrentInv, TypeOK, WritesFit, SpentStaysRevoked, UsesFit, Matching
  <2>6. QED
    BY <2>1, <2>2, <2>3, <2>4, <2>5 DEF Next
<1>2. QED
  BY ConcurrentInit, <1>1, PTL DEF Spec

\* The rows, the transactions and the histories stay within their types.
THEOREM Typing == Spec => []TypeOK
<1>1. ConcurrentInv => TypeOK
  BY DEF ConcurrentInv
<1>2. QED
  BY ConcurrentInvariance, <1>1, PTL

\* However requests overlap, a code that verified or used up its guesses is
\* revoked and stays so: no stale write of attempt_count revives it.
THEOREM SpentCodesStayRevoked == Spec => []SpentStaysRevoked
<1>1. ConcurrentInv => SpentStaysRevoked
  BY DEF ConcurrentInv
<1>2. QED
  BY ConcurrentInvariance, <1>1, PTL

\* A code verifies at most once per request that can be in flight: whoever reads
\* after the first commit finds it revoked.
THEOREM UsesAreBounded == Spec => []UsesBounded
<1>1. ConcurrentInv => UsesBounded
  <2> SUFFICES ASSUME ConcurrentInv, NEW o \in Otps
               PROVE  used[o] <= Cardinality(Requests)
    BY DEF UsesBounded
  <2>1. Matching(o) \subseteq Requests
    BY DEF Matching
  <2>2. Cardinality(Matching(o)) \in Nat /\ Cardinality(Requests) \in Nat
    BY <2>1, MatchingFinite, ConstantsAssumption, FS_CardinalityType
  <2>3. used[o] \in Nat /\ used[o] + Cardinality(Matching(o)) <= Cardinality(Requests)
    BY DEF ConcurrentInv, TypeOK, UsesFit
  <2>4. QED
    BY <2>2, <2>3
<1>2. QED
  BY ConcurrentInvariance, <1>1, PTL

----------------------------------------------------------------------------
(* One request at a time                                                   *)

LEMMA SerialInit == Init => SerialInv
BY ConstantsAssumption
   DEF Init, SerialInv, SnapshotsCurrent, OneActive, AttemptsCounted, Idle, Active, Rows

LEMMA SerialBegin ==
    ASSUME Serial, ConcurrentInv, SerialInv, NEW r \in Requests, Read(r)
    PROVE  SerialInv'
<1> USE ConstantsAssumption
<1>1. TypeOK /\ SpentStaysRevoked /\ SnapshotsCurrent /\ OneActive /\ AttemptsCounted
  BY DEF ConcurrentInv, SerialInv
<1>2. CASE UNCHANGED vars
  BY <1>1, <1>2 DEF vars, SerialInv, SnapshotsCurrent, Current, OneActive, AttemptsCounted,
                    Active, Rows
<1>3. ASSUME NEW txn \in RequestState, Begin(r, txn), txn.pc = "open",
             txn.chan \in Channels,
             \/ /\ txn.op \in Issues \union {"reset"}
                /\ txn.revokes = Active(txn.chan)
             \/ /\ txn.target \in Active(txn.chan)
                /\ txn.op = "right" /\ txn.revokes = {txn.target}
             \/ /\ txn.target \in Active(txn.chan)
                /\ txn.op = "wrong"
                /\ txn.attempts = attempts[txn.target] + 1
                /\ txn.revokes = IF txn.attempts >= MaxAttempts THEN {txn.target} ELSE {}
      PROVE  SerialInv'
  <2>1. /\ UNCHANGED <<now, chan, via, created, revoked, attempts, used, guessed>>
        /\ req' = [req EXCEPT ![r] = txn]
    BY <1>3 DEF Begin
  <2>2. \A s \in Requests : req'[s] = txn
    BY <1>1, <2>1 DEF Serial, TypeOK
  <2>3. OneActive' /\ AttemptsCounted'
    BY <1>1, <2>1 DEF OneActive, AttemptsCounted, Active, Rows
  <2>4. Current(txn)
    <3>1. CASE txn.op \in Issues \union {"reset"}
      BY <1>3, <3>1 DEF Current, Issues, Active
    <3>2. CASE txn.op = "right"
      BY <1>1, <1>3, <3>2 DEF Current, Issues, OneActive, Active
    <3>3. CASE txn.op = "wrong"
      <4>1. /\ txn.target \in Otps /\ chan[txn.target] = txn.chan
            /\ txn.target \notin revoked
            /\ txn.attempts = attempts[txn.target] + 1
            /\ txn.revokes = IF txn.attempts >= MaxAttempts THEN {txn.target} ELSE {}
        BY <1>3, <3>3 DEF Issues, Active, Rows
      <4>2. attempts[txn.target] < MaxAttempts
        BY <1>1, <4>1 DEF SpentStaysRevoked, TypeOK
      <4>3. QED
        BY <1>3, <3>3, <4>1, <4>2 DEF Current
    <3>4. QED
      BY <1>3, <3>1, <3>2, <3>3
  <2>5. Current(txn)'
    BY <2>1, <2>4 DEF Current, Active, Rows
  <2>6. QED
    BY <2>2, <2>3, <2>5 DEF SerialInv, SnapshotsCurrent
<1>4. QED
  BY <1>1, <1>2, <1>3, ReadsBegin

LEMMA SerialCommit ==
    ASSUME Serial, ConcurrentInv, SerialInv, NEW r \in Requests, Commit(r)
    PROVE  SerialInv'
<1> USE ConstantsAssumption
<1>1. TypeOK /\ WritesFit /\ SnapshotsCurrent /\ OneActive /\ AttemptsCounted
  BY DEF ConcurrentInv, SerialInv
<1>2. /\ req[r].pc = "open" /\ req[r] \in RequestState /\ TypeOK'
      /\ now' = now /\ revoked' = revoked \union req[r].revokes
      /\ \A s \in Requests : req'[s] = IF s = r THEN Idle ELSE req[s]
      /\ \A o \in Otps :
            /\ attempts'[o] = IF req[r].op = "wrong" /\ o = req[r].target
                              THEN req[r].attempts ELSE attempts[o]
            /\ guessed'[o] = guessed[o] + Hit(r, "wrong", o)
      /\ \/ /\ req[r].op \notin Issues
            /\ UNCHANGED <<chan, via, created>>
         \/ /\ req[r].op \in Issues
            /\ \E n \in Rows(NoChannel) : Insert(r, n)
  BY <1>1, CommitRows
<1>3. Current(req[r])
  BY <1>1, <1>2 DEF SnapshotsCurrent
<1>4. SnapshotsCurrent'
  BY <1>2 DEF Serial, SnapshotsCurrent, Idle
<1>5. AttemptsCounted'
  BY <1>1, <1>2, <1>3 DEF AttemptsCounted, Current, Hit, TypeOK
<1>6. OneActive'
  <2>1. CASE UNCHANGED <<chan, via, created>>
    BY <1>1, <1>2, <2>1 DEF OneActive, Active, Rows
  <2>2. ASSUME req[r].op \in Issues, NEW n \in Rows(NoChannel), Insert(r, n)
        PROVE  OneActive'
    <3>1. PICK d \in Channels : d = req[r].chan /\ Active(d) \subseteq req[r].revokes
      BY <1>3, <2>2 DEF Current, Issues
    <3>2. \A o \in Otps : o # n => chan'[o] = chan[o] /\ created'[o] = created[o]
      BY <2>2 DEF Insert
    <3>3. chan'[n] = d /\ n \in Otps
      BY <2>2, <3>1 DEF Insert, Rows
    <3>4. ASSUME NEW c \in Channels, NEW o \in Active(c)' PROVE o = n \/ o \in Active(c)
      BY <1>2, <3>2, <3>4 DEF Active, Rows
    <3>5. ASSUME NEW o \in Active(d)' PROVE o = n
      BY <1>2, <3>1, <3>4, <3>5 DEF Active
    <3>6. ASSUME NEW c \in Channels, c # d, NEW o \in Active(c)'
          PROVE  o \in Active(c)
      BY <3>3, <3>4, <3>6 DEF Active, Rows
    <3>7. QED
      BY <1>1, <3>5, <3>6 DEF OneActive
  <2>3. QED
    BY <1>2, <2>1, <2>2
<1>7. QED
  BY <1>4, <1>5, <1>6 DEF SerialInv

LEMMA SerialInvariance == Serial => (Spec => []SerialInv)
<1> SUFFICES ASSUME Serial PROVE Spec => []SerialInv
  OBVIOUS
<1>1. ConcurrentInv /\ SerialInv /\ [Next]_vars => SerialInv'
  <2> SUFFICES ASSUME ConcurrentInv, SerialInv, [Next]_vars PROVE SerialInv'
    OBVIOUS
  <2>1. ASSUME NEW r \in Requests, Read(r) PROVE SerialInv'
    BY <2>1, SerialBegin
  <2>2. ASSUME NEW r \in Requests, Commit(r) PROVE SerialInv'
    BY <2>2, SerialCommit
  <2>3. ASSUME NEW r \in Requests, Rollback(r) PROVE SerialInv'
    <3>1. /\ UNCHANGED <<now, chan, via, created, revoked, attempts, used, guessed>>
          /\ \A s \in Requests : req'[s] = Idle
      BY <2>3 DEF Rollback, Serial, ConcurrentInv, TypeOK
    <3>2. QED
      BY <3>1 DEF SerialInv, SnapshotsCurrent, OneActive, AttemptsCounted, Active, Rows, Idle
  <2>4. CASE Tick
    <3>1. /\ UNCHANGED <<chan, via, created, revoked, attempts, req, used, guessed>>
          /\ now' = now + 1
      BY <2>4 DEF Tick
    <3>2. \A c \in Channels : Active(c)' \subseteq Active(c)
      BY <3>1, ConstantsAssumption DEF Active, Rows, ConcurrentInv, TypeOK
    <3>3. OneActive' /\ AttemptsCounted'
      BY <3>1, <3>2 DEF SerialInv, OneActive, AttemptsCounted
    <3>4. ASSUME NEW txn, Current(txn) PROVE Current(txn)'
      BY <3>1, <3>2, <3>4 DEF Current, Rows
    <3>5. SnapshotsCurrent'
      BY <3>1, <3>4 DEF SerialInv, SnapshotsCurrent
    <3>6. QED
      BY <3>3, <3>5 DEF SerialInv
  <2>5. CASE UNCHANGED vars
    BY <2>5 DEF vars, SerialInv, SnapshotsCurrent, Current, OneActive, AttemptsCounted,
                Active, Rows
  <2>6. QED
    BY <2>1, <2>2, <2>3, <2>4, <2>5 DEF Next
<1>2. QED
  BY SerialInit, ConcurrentInvariance, <1>1, PTL DEF Spec

\* Served one at a time, every wrong guess that was answered is counted, so the
\* limit on attempts is a limit on guesses.
THEOREM SerialAttemptsCounted == Serial => (Spec => []AttemptsCounted)
<1>1. SerialInv => AttemptsCounted
  BY DEF SerialInv
<1>2. QED
  BY SerialInvariance, <1>1, PTL

\* What one step of a lone service is in terms of a challenge.
LEMMA SerialStep ==
    ASSUME Serial, ConcurrentInv, SerialInv, SerialInv', [Next]_vars
    PROVE  [Challenge!Next]_(Challenge!vars)
<1> USE ConstantsAssumption
<1> DEFINE current == [c \in Channels |-> IF Active(c) = {} THEN NoOtp
                                          ELSE CHOOSE o \in Active(c) : TRUE]
<1> DEFINE issued == {o \in Otps : chan[o] # NoChannel}
<1>1. TypeOK /\ WritesFit /\ SnapshotsCurrent /\ OneActive /\ OneActive'
  BY DEF ConcurrentInv, SerialInv
<1>2. \A c \in Channels : IF Active(c) = {} THEN current[c] = NoOtp
                          ELSE current[c] \in Active(c)
  OBVIOUS
<1>3. \A c \in Channels : IF Active(c)' = {} THEN current'[c] = NoOtp
                          ELSE current'[c] \in Active(c)'
  OBVIOUS
<1>4. /\ current \in [Channels -> Otps \union {NoOtp}]
      /\ current' = [c \in Channels |-> current'[c]]
  BY DEF Active, Rows
<1> HIDE DEF current
<1>5. ASSUME NEW c \in Channels, Active(c)' = Active(c) PROVE current'[c] = current[c]
  BY <1>1, <1>2, <1>3, <1>5 DEF OneActive
<1>6. ASSUME UNCHANGED <<chan, attempts>>, \A c \in Channels : Active(c)' \subseteq Active(c)
      PROVE  \E C \in SUBSET Channels : Challenge!End(C)
  <2> DEFINE C == {c \in Channels : Active(c)' = {}}
  <2>1. \A c \in Channels : current'[c] = IF c \in C THEN NoOtp ELSE current[c]
    BY <1>1, <1>2, <1>3, <1>6 DEF OneActive
  <2>2. current' = [c \in Channels |-> IF c \in C THEN NoOtp ELSE current[c]]
    BY <1>4, <2>1
  <2>3. Challenge!End(C)
    BY <1>6, <2>2 DEF Challenge!End, current
  <2>4. QED
    BY <2>3
<1>7. ASSUME NEW r \in Requests, Read(r) PROVE UNCHANGED Challenge!vars
  <2>1. UNCHANGED vars \/ \E txn \in RequestState : Begin(r, txn)
    BY <1>1, <1>7, ReadsBegin
  <2>2. UNCHANGED <<now, chan, via, created, revoked, attempts, used, guessed>>
    BY <2>1 DEF Begin, vars
  <2>3. QED
    BY <2>2 DEF Challenge!vars, Active, Rows
<1>8. ASSUME NEW r \in Requests, Rollback(r) PROVE UNCHANGED Challenge!vars
  BY <1>8 DEF Rollback, Challenge!vars, Active, Rows
<1>9. CASE Tick
  <2>1. \A c \in Channels : Active(c)' \subseteq Active(c)
    BY <1>1, <1>9 DEF Tick, Active, Rows, TypeOK
  <2>2. \E C \in SUBSET Channels : Challenge!End(C)
    BY <1>6, <1>9, <2>1 DEF Tick
  <2>3. QED
    BY <2>2 DEF Challenge!Next
<1>10. CASE UNCHANGED vars
  BY <1>10 DEF vars, Challenge!vars, Active, Rows
<1>11. ASSUME NEW r \in Requests, Commit(r) PROVE [Challenge!Next]_(Challenge!vars)
  <2>1. /\ req[r].pc = "open" /\ req[r] \in RequestState /\ TypeOK'
        /\ now' = now /\ revoked' = revoked \union req[r].revokes
        /\ \A o \in Otps : attempts'[o] = IF req[r].op = "wrong" /\ o = req[r].target
                                          THEN req[r].attempts ELSE attempts[o]
        /\ \/ /\ req[r].op \notin Issues
              /\ UNCHANGED <<chan, via, created>>
           \/ /\ req[r].op \in Issues
              /\ \E n \in Rows(NoChannel) : Insert(r, n)
    BY <1>1, <1>11, CommitRows
  <2>2. Current(req[r])
    BY <1>1, <2>1 DEF SnapshotsCurrent
  <2>3. CASE req[r].op \in {"right", "reset"}
    <3>1. UNCHANGED <<chan, via, created>> /\ attempts' = attempts
      BY <1>1, <2>1, <2>3 DEF Issues, TypeOK
    <3>2. \A c \in Channels : Active(c)' \subseteq Active(c)
      BY <2>1, <3>1 DEF Active, Rows
    <3>3. \E C \in SUBSET Channels : Challenge!End(C)
      BY <1>6, <3>1, <3>2
    <3>4. QED
      BY <3>3 DEF Challenge!Next
  <2>4. CASE req[r].op \in Issues
    <3>1. PICK n \in Rows(NoChannel) : Insert(r, n)
      BY <2>1, <2>4
    <3>2. PICK d \in Channels : /\ d = req[r].chan
                                /\ Active(d) \subseteq req[r].revokes
                                /\ req[r].revokes \subseteq Rows(d)
      BY <2>2, <2>4 DEF Current, Issues
    <3>3. /\ n \in Otps /\ chan[n] = NoChannel /\ chan'[n] = d
          /\ \A o \in Otps : o # n => chan'[o] = chan[o] /\ created'[o] = created[o]
          /\ attempts' = attempts
      BY <1>1, <2>1, <2>4, <3>1, <3>2 DEF Insert, Rows, Issues, TypeOK
    <3>4. issued' = issued \union {n} /\ n \notin issued
      BY <3>3
    <3>5. Active(d)' \subseteq {n}
      BY <2>1, <3>2, <3>3 DEF Active, Rows
    <3>6. \A c \in Channels : c # d => Active(c)' = Active(c)
      BY <2>1, <3>2, <3>3 DEF Active, Rows
    <3>7. \A c \in Channels : c # d => current'[c] = current[c]
      BY <1>5, <3>6
    <3>8. current'[d] \in {n, NoOtp}
      BY <1>3, <3>5
    <3>9. current' = [current EXCEPT ![d] = current'[d]]
      BY <1>4, <3>7
    <3>10. Challenge!Issue(d, n)
      BY <3>3, <3>4, <3>8, <3>9 DEF Challenge!Issue, current
    <3>11. \E c \in Channels, o \in Otps : Challenge!Issue(c, o)
      BY <3>3, <3>10
    <3>12. QED
      BY <3>11 DEF Challenge!Next
  <2>5. CASE req[r].op = "wrong"
    <3>1. PICK o \in Otps : /\ o = req[r].target
                            /\ chan[o] # NoChannel
                            /\ req[r].attempts = attempts[o] + 1
                            /\ attempts[o] < MaxAttempts
                            /\ req[r].revokes = IF req[r].attempts >= MaxAttempts
                                                THEN {o} ELSE {}
      BY <2>2, <2>5 DEF Current
    <3>2. UNCHANGED <<chan, via, created>>
      BY <2>1, <2>5 DEF Issues
    <3>3. attempts' = [attempts EXCEPT ![o] = @ + 1]
      BY <1>1, <2>1, <2>5, <3>1 DEF TypeOK
    <3>4. attempts'[o] = attempts[o] + 1
      BY <1>1, <3>3 DEF TypeOK
    <3>5. \A c \in Channels :
              Active(c)' = IF attempts'[o] = MaxAttempts THEN Active(c) \ {o} ELSE Active(c)
      BY <1>1, <2>1, <3>1, <3>2, <3>4 DEF Active, Rows, TypeOK
    <3>6. \A c \in Channels :
              current'[c] = IF current[c] = o /\ attempts'[o] = MaxAttempts THEN NoOtp
                            ELSE current[c]
      BY <1>1, <1>2, <1>3, <3>5 DEF OneActive
    <3>7. current' = [c \in Channels |->
              IF current[c] = o /\ attempts'[o] = MaxAttempts THEN NoOtp ELSE current[c]]
      BY <1>4, <3>6
    <3>8. Challenge!WrongGuess(o)
      BY <3>1, <3>2, <3>3, <3>7 DEF Challenge!WrongGuess, current
    <3>9. \E p \in Otps : Challenge!WrongGuess(p)
      BY <3>8
    <3>10. QED
      BY <3>9 DEF Challenge!Next
  <2>6. QED
    BY <2>1, <2>3, <2>4, <2>5 DEF RequestState, Ops
<1>12. QED
  BY <1>7, <1>8, <1>9, <1>10, <1>11 DEF Next

\* Served one at a time, the codes of each channel are an OtpChallenge: one
\* current code at most, replaced by the next, dead for good once it verified,
\* used up its guesses, was revoked or expired.
THEOREM SerialChallenge == Serial => (Spec => ImplementsChallenge)
<1> SUFFICES ASSUME Serial PROVE Spec => ImplementsChallenge
  OBVIOUS
<1>1. Init => Challenge!Init
  BY ConstantsAssumption DEF Init, Challenge!Init, Active, Rows
<1>2. ConcurrentInv /\ SerialInv /\ SerialInv' /\ [Next]_vars
      => [Challenge!Next]_(Challenge!vars)
  BY SerialStep
<1>3. QED
  BY SerialInvariance, ConcurrentInvariance, <1>1, <1>2, PTL
     DEF Spec, ImplementsChallenge, Challenge!Spec

----------------------------------------------------------------------------
(* The bounds on active codes and resends, however requests overlap        *)

\* The rows after the commit of a request that issues a code.
LEMMA CommitInserts ==
    ASSUME TypeOK, WritesFit, Dated, NEW r \in Requests, Commit(r), req[r].op \in Issues
    PROVE  \E n \in Otps :
              /\ chan[n] = NoChannel /\ chan'[n] = req[r].chan /\ req[r].chan \in Channels
              /\ via'[n] = req[r].op /\ created'[n] = req[r].at
              /\ \A o \in Otps : o # n => /\ chan'[o] = chan[o]
                                          /\ via'[o] = via[o]
                                          /\ created'[o] = created[o]
              /\ Stored' = Stored \union {n}
              /\ n \notin Stored
<1>1. req[r].pc = "open" /\ \E n \in Rows(NoChannel) : Insert(r, n)
  BY CommitRows
<1>2. PICK n \in Rows(NoChannel) : Insert(r, n)
  BY <1>1
<1>3. n \in Otps /\ chan[n] = NoChannel
  BY DEF Rows
<1>4. req[r].chan \in Channels
  BY <1>1 DEF Dated
<1>5. /\ chan'[n] = req[r].chan /\ via'[n] = req[r].op /\ created'[n] = req[r].at
      /\ \A o \in Otps : o # n => /\ chan'[o] = chan[o]
                                  /\ via'[o] = via[o]
                                  /\ created'[o] = created[o]
  BY <1>2, <1>3 DEF Insert
<1>6. Stored' = Stored \union {n} /\ n \notin Stored
  BY <1>3, <1>4, <1>5, ConstantsAssumption DEF Stored
<1>7. QED
  BY <1>3, <1>4, <1>5, <1>6

LEMMA DatedStep ==
    ASSUME ConcurrentInv, Dated, [Next]_vars
    PROVE  Dated'
<1> USE ConstantsAssumption
<1>1. TypeOK /\ WritesFit
  BY DEF ConcurrentInv
<1>2. ASSUME UNCHANGED vars PROVE Dated'
  BY <1>2 DEF vars, Dated, Stored
<1>3. ASSUME NEW r \in Requests, Read(r) PROVE Dated'
  <2>1. ASSUME NEW txn \in RequestState, Begin(r, txn), txn.chan \in Channels,
               txn.op \in Issues => txn.at = now
        PROVE  Dated'
    <3>1. \A s \in Requests : req'[s] = IF s = r THEN txn ELSE req[s]
      BY <1>1, <2>1 DEF Begin, TypeOK
    <3>2. UNCHANGED <<now, chan, via, created>>
      BY <2>1 DEF Begin
    <3>3. now \in Nat
      BY <1>1 DEF TypeOK
    <3>4. QED
      BY <2>1, <3>1, <3>2, <3>3 DEF Dated, Stored
  <2>2. \/ UNCHANGED vars
        \/ \E txn \in RequestState :
               Begin(r, txn) /\ txn.chan \in Channels /\ (txn.op \in Issues => txn.at = now)
    BY <1>1, <1>3, ReadsBegin DEF Issues
  <2>3. QED
    BY <1>2, <2>1, <2>2
<1>4. ASSUME NEW r \in Requests, Commit(r) PROVE Dated'
  <2>1. /\ \A s \in Requests : req'[s] = IF s = r THEN Idle ELSE req[s]
        /\ now' = now /\ req[r].pc = "open"
        /\ req[r].op \notin Issues => UNCHANGED <<chan, via, created>>
    BY <1>1, <1>4, CommitRows
  <2>2. \A s \in Requests :
            req'[s].pc = "open" /\ req'[s].op \in Issues =>
                req'[s].at <= now' /\ req'[s].chan \in Channels
    BY <2>1 DEF Dated, Idle
  <2>3. CASE req[r].op \notin Issues
    BY <2>1, <2>2, <2>3 DEF Dated, Stored
  <2>4. CASE req[r].op \in Issues
    <3>1. PICK n \in Otps :
              /\ chan'[n] = req[r].chan /\ req[r].chan \in Channels
              /\ created'[n] = req[r].at
              /\ \A o \in Otps : o # n => /\ chan'[o] = chan[o]
                                          /\ via'[o] = via[o]
                                          /\ created'[o] = created[o]
              /\ Stored' = Stored \union {n}
      BY <1>1, <1>4, <2>4, CommitInserts
    <3>2. req[r].at <= now
      BY <2>1, <2>4 DEF Dated
    <3>3. IsFiniteSet(Stored')
      BY <3>1, FS_AddElement DEF Dated
    <3>4. \A o \in Stored' : created'[o] <= now'
      BY <2>1, <3>1, <3>2 DEF Dated, Stored
    <3>5. \A o \in Otps : via'[o] = "cookie" => chan'[o] \in Channels
      BY <3>1 DEF Dated
    <3>6. QED
      BY <2>2, <3>3, <3>4, <3>5 DEF Dated
  <2>5. QED
    BY <2>3, <2>4
<1>5. ASSUME NEW r \in Requests, Rollback(r) PROVE Dated'
  <2>1. /\ UNCHANGED <<now, chan, via, created>>
        /\ \A s \in Requests : req'[s] = IF s = r THEN Idle ELSE req[s]
    BY <1>1, <1>5 DEF Rollback, TypeOK
  <2>2. QED
    BY <2>1 DEF Dated, Stored, Idle
<1>6. CASE Tick
  <2>1. UNCHANGED <<chan, via, created, req>> /\ now' = now + 1 /\ now \in Nat
    BY <1>1, <1>6 DEF Tick, TypeOK
  <2>2. \A o \in Otps : created[o] \in Nat
    BY <1>1 DEF TypeOK
  <2>3. \A r \in Requests : req[r].at \in Nat
    BY <1>1 DEF TypeOK, RequestState
  <2>4. QED
    BY <2>1, <2>2, <2>3 DEF Dated, Stored
<1>7. QED
  BY <1>2, <1>3, <1>4, <1>5, <1>6 DEF Next

LEMMA DatedInvariance == Spec => []Dated
<1>1. Init => Dated
  <2> SUFFICES ASSUME Init PROVE Dated
    OBVIOUS
  <2>1. Stored = {}
    BY DEF Init, Stored
  <2>2. IsFiniteSet(Stored)
    BY <2>1, FS_EmptySet
  <2>3. QED
    BY <2>1, <2>2 DEF Init, Dated, Idle
<1>2. ConcurrentInv /\ Dated /\ [Next]_vars => Dated'
  BY DatedStep
<1>3. QED
  BY ConcurrentInvariance, <1>1, <1>2, PTL DEF Spec

LEMMA ActiveStep ==
    ASSUME ConcurrentInv, Dated, ActiveInv, [Next]_vars
    PROVE  ActiveInv'
<1> USE ConstantsAssumption
<1>1. TypeOK /\ WritesFit
  BY DEF ConcurrentInv
<1>2. PICK f \in [Stored -> Requests] : Issuer(f)
  BY DEF ActiveInv
<1>3. \A c \in Channels : \A o \in Active(c) : o \in Stored /\ o \in Otps
  BY DEF Active, Rows, Stored
<1>4. Dated'
  BY DatedStep
<1>5. ASSUME Stored' = Stored,
             \A c \in Channels : Active(c)' \subseteq Active(c),
             \A s \in Requests : req'[s].pc = "open" /\ req'[s].op \in Issues =>
                 \/ req'[s] = req[s]
                 \/ req'[s].chan \in Channels /\ Active(req'[s].chan) \subseteq req'[s].revokes
      PROVE  ActiveInv'
  <2>1. \A c \in Channels : \A o, p \in Active(c)' : f[o] = f[p] => o = p
    BY <1>2, <1>5 DEF Issuer
  <2>2. ASSUME NEW s \in Requests, req'[s].pc = "open", req'[s].op \in Issues,
               NEW d \in Channels, d = req'[s].chan, NEW o \in Active(d)', f[o] = s
        PROVE  o \in req'[s].revokes
    <3>1. o \in Active(d)
      BY <1>5, <2>2
    <3>2. QED
      BY <1>2, <1>5, <2>2, <3>1 DEF Issuer
  <2>3. Issuer(f)'
    BY <1>4, <2>1, <2>2 DEF Issuer, Dated
  <2>4. QED
    BY <1>5, <2>3 DEF ActiveInv
<1>6. ASSUME UNCHANGED vars PROVE ActiveInv'
  BY <1>5, <1>6 DEF vars, Stored, Active, Rows
<1>7. ASSUME NEW r \in Requests, Read(r) PROVE ActiveInv'
  <2>1. ASSUME NEW txn \in RequestState, Begin(r, txn), txn.chan \in Channels,
               txn.op \in Issues => txn.revokes = Active(txn.chan)
        PROVE  ActiveInv'
    <3>1. \A s \in Requests : req'[s] = IF s = r THEN txn ELSE req[s]
      BY <1>1, <2>1 DEF Begin, TypeOK
    <3>2. Stored' = Stored /\ \A c \in Channels : Active(c)' = Active(c)
      BY <2>1 DEF Begin, Stored, Active, Rows
    <3>3. QED
      BY <1>5, <2>1, <3>1, <3>2
  <2>2. \/ UNCHANGED vars
        \/ \E txn \in RequestState :
               /\ Begin(r, txn) /\ txn.chan \in Channels
               /\ txn.op \in Issues => txn.revokes = Active(txn.chan)
    BY <1>1, <1>7, ReadsBegin DEF Issues
  <2>3. QED
    BY <1>6, <2>1, <2>2
<1>8. ASSUME NEW r \in Requests, Commit(r) PROVE ActiveInv'
  <2>1. /\ \A s \in Requests : req'[s] = IF s = r THEN Idle ELSE req[s]
        /\ now' = now /\ req[r].pc = "open"
        /\ revoked' = revoked \union req[r].revokes
        /\ req[r].op \notin Issues => UNCHANGED <<chan, via, created>>
    BY <1>1, <1>8, CommitRows
  <2>2. CASE req[r].op \notin Issues
    <3>1. Stored' = Stored /\ \A c \in Channels : Active(c)' \subseteq Active(c)
      BY <2>1, <2>2 DEF Stored, Active, Rows
    <3>2. QED
      BY <1>5, <2>1, <3>1 DEF Idle
  <2>3. CASE req[r].op \in Issues
    <3>1. PICK n \in Otps :
              /\ chan[n] = NoChannel /\ chan'[n] = req[r].chan /\ req[r].chan \in Channels
              /\ created'[n] = req[r].at
              /\ \A o \in Otps : o # n => chan'[o] = chan[o] /\ created'[o] = created[o]
              /\ Stored' = Stored \union {n}
              /\ n \notin Stored
      BY <1>1, <1>8, <2>3, CommitInserts
    <3>2. PICK d \in Channels : d = req[r].chan
      BY <3>1
    <3>3. PICK g \in [Stored' -> Requests] : g = [o \in Stored' |-> IF o = n THEN r ELSE f[o]]
      BY <1>2, <3>1
    <3>4. g[n] = r /\ \A o \in Stored : g[o] = f[o]
      BY <3>1, <3>3
    <3>5. ASSUME NEW c \in Channels, NEW o \in Active(c)', o # n
          PROVE  o \in Active(c) /\ o \in Stored /\ o \notin req[r].revokes
      BY <2>1, <3>1, <3>5 DEF Active, Rows, Stored
    <3>6. ASSUME NEW o \in Active(d)', o # n PROVE f[o] # r
      BY <1>2, <2>1, <2>3, <3>2, <3>5, <3>6 DEF Issuer
    <3>7. ASSUME NEW c \in Channels, n \in Active(c)' PROVE c = d
      BY <3>1, <3>2, <3>7 DEF Active, Rows
    <3>8. ASSUME NEW c \in Channels, NEW o \in Active(c)', NEW p \in Active(c)', g[o] = g[p]
          PROVE  o = p
      <4>1. CASE o # n /\ p # n
        BY <1>2, <3>4, <3>5, <3>8, <4>1 DEF Issuer
      <4>2. CASE o = n /\ p # n
        BY <3>4, <3>5, <3>6, <3>7, <3>8, <4>2
      <4>3. CASE o # n /\ p = n
        BY <3>4, <3>5, <3>6, <3>7, <3>8, <4>3
      <4>4. QED
        BY <4>1, <4>2, <4>3
    <3>9. ASSUME NEW s \in Requests, req'[s].pc = "open", req'[s].op \in Issues,
                 NEW c \in Channels, c = req'[s].chan, NEW o \in Active(c)', g[o] = s
          PROVE  o \in req'[s].revokes
      <4>1. s # r /\ req'[s] = req[s]
        BY <2>1, <3>9 DEF Idle
      <4>2. o # n
        BY <3>4, <3>9, <4>1
      <4>3. o \in Active(c) /\ f[o] = s
        BY <3>4, <3>5, <3>9, <4>2
      <4>4. QED
        BY <1>2, <3>9, <4>1, <4>3 DEF Issuer
    <3>10. Issuer(g)'
      BY <1>4, <3>8, <3>9 DEF Issuer, Dated
    <3>11. QED
      BY <3>3, <3>10 DEF ActiveInv
  <2>4. QED
    BY <2>2, <2>3
<1>9. ASSUME NEW r \in Requests, Rollback(r) PROVE ActiveInv'
  <2>1. /\ UNCHANGED <<now, chan, via, created, revoked>>
        /\ \A s \in Requests : req'[s] = IF s = r THEN Idle ELSE req[s]
    BY <1>1, <1>9 DEF Rollback, TypeOK
  <2>2. Stored' = Stored /\ \A c \in Channels : Active(c)' = Active(c)
    BY <2>1 DEF Stored, Active, Rows
  <2>3. QED
    BY <1>5, <2>1, <2>2 DEF Idle
<1>10. CASE Tick
  <2>1. UNCHANGED <<chan, via, created, revoked, req>> /\ now' = now + 1
    BY <1>10 DEF Tick
  <2>2. Stored' = Stored /\ \A c \in Channels : Active(c)' \subseteq Active(c)
    BY <1>1, <2>1 DEF Stored, Active, Rows, TypeOK
  <2>3. QED
    BY <1>5, <2>1, <2>2
<1>11. QED
  BY <1>6, <1>7, <1>8, <1>9, <1>10 DEF Next

\* However issues overlap, a channel has at most one active code per request in
\* flight: each request that issues revokes what is left of its own last code.
THEOREM ActiveCodesBounded == Spec => []ActiveBounded
<1>1. Init => ActiveInv
  <2> SUFFICES ASSUME Init PROVE ActiveInv
    OBVIOUS
  <2>1. Stored = {} /\ \A c \in Channels : Active(c) = {}
    BY ConstantsAssumption DEF Init, Stored, Active, Rows
  <2> DEFINE f == [o \in {} |-> 0]
  <2>2. f \in [Stored -> Requests]
    BY <2>1
  <2>3. Issuer(f)
    BY <2>1 DEF Issuer, Init, Idle
  <2>4. QED
    BY <2>2, <2>3 DEF ActiveInv
<1>2. ConcurrentInv /\ Dated /\ ActiveInv /\ [Next]_vars => ActiveInv'
  BY ActiveStep
<1>3. ActiveInv => ActiveBounded
  <2> SUFFICES ASSUME ActiveInv, NEW c \in Channels
               PROVE  Cardinality(Active(c)) <= Cardinality(Requests)
    BY DEF ActiveBounded
  <2>1. PICK f \in [Stored -> Requests] : Issuer(f)
    BY DEF ActiveInv
  <2>2. Active(c) \subseteq Stored
    BY ConstantsAssumption DEF Active, Rows, Stored
  <2> DEFINE g == [o \in Active(c) |-> f[o]]
  <2>3. g \in [Active(c) -> Requests] /\ \A o, p \in Active(c) : g[o] = g[p] => o = p
    BY <2>1, <2>2 DEF Issuer
  <2> HIDE DEF g
  <2>4. g \in Injection(Active(c), Requests)
    BY <2>3 DEF Injection, IsInjective
  <2>5. QED
    BY <2>4, ConstantsAssumption, FS_Injection
<1>4. QED
  BY ConcurrentInvariance, DatedInvariance, <1>1, <1>2, <1>3, PTL DEF Spec

LEMMA SmallerSum ==
    ASSUME NEW S, NEW T, IsFiniteSet(S), IsFiniteSet(T), NEW A \in SUBSET S, NEW B \in SUBSET T,
           NEW k \in Nat, Cardinality(S) + Cardinality(T) < k
    PROVE  Cardinality(A) + Cardinality(B) < k
<1>1. Cardinality(S) \in Nat /\ Cardinality(T) \in Nat
  BY FS_CardinalityType
<1>2. IsFiniteSet(A) /\ Cardinality(A) <= Cardinality(S)
  BY FS_Subset
<1>3. IsFiniteSet(B) /\ Cardinality(B) <= Cardinality(T)
  BY FS_Subset
<1>4. Cardinality(A) \in Nat /\ Cardinality(B) \in Nat
  BY <1>2, <1>3, FS_CardinalityType
<1>5. QED
  BY <1>1, <1>2, <1>3, <1>4

\* The codes and the requests counted in a window are finitely many.
LEMMA WindowFinite ==
    ASSUME Dated, NEW c \in Channels, NEW t
    PROVE  /\ IsFiniteSet(Sharing(c, t)) /\ IsFiniteSet(Joining(c, t))
           /\ Rows(c) \subseteq Stored /\ IsFiniteSet(Rows(c))
           /\ MaxResends + Cardinality(Requests) \in Nat
<1>1. Rows(c) \subseteq Stored /\ Sharing(c, t) \subseteq Stored
  BY ConstantsAssumption DEF Rows, Stored, Sharing
<1>2. IsFiniteSet(Stored)
  BY DEF Dated
<1>3. IsFiniteSet(Rows(c)) /\ IsFiniteSet(Sharing(c, t))
  BY <1>1, <1>2, FS_Subset
<1>4. Joining(c, t) \subseteq Requests
  BY DEF Joining
<1>5. Cardinality(Requests) \in Nat /\ MaxResends \in Nat
  BY ConstantsAssumption, FS_CardinalityType
<1>6. QED
  BY <1>1, <1>3, <1>4, <1>5, MatchingFinite

\* A window that gains nobody still fits.
LEMMA WindowKept ==
    ASSUME Dated, WindowsFit, NEW c \in Channels, NEW t \in Nat, Resent(c, t),
           Sharing(c, t)' \subseteq Sharing(c, t), Joining(c, t)' \subseteq Joining(c, t)
    PROVE  Cardinality(Sharing(c, t)') + Cardinality(Joining(c, t)')
             < MaxResends + Cardinality(Requests)
<1>1. PICK k \in Nat : k = MaxResends + Cardinality(Requests)
  BY WindowFinite
<1>2. Cardinality(Sharing(c, t)) + Cardinality(Joining(c, t)) < k
  BY <1>1 DEF WindowsFit
<1>3. IsFiniteSet(Sharing(c, t)) /\ IsFiniteSet(Joining(c, t))
  BY WindowFinite
<1>4. Cardinality(Sharing(c, t)') + Cardinality(Joining(c, t)') < k
  BY <1>2, <1>3, SmallerSum
<1>5. QED
  BY <1>1, <1>4

\* A read opens the window of a resend that found room in it, or none.
LEMMA WindowsBegin ==
    ASSUME TypeOK, Dated, Dated', WindowsFit, NEW r \in Requests, NEW txn \in RequestState,
           Begin(r, txn), txn.pc = "open",
           txn.op \in Issues => txn.at = now,
           txn.op = "cookie" => ~CapReached(txn.chan),
           NEW c \in Channels, NEW t \in Nat, Resent(c, t)'
    PROVE  Cardinality(Sharing(c, t)') + Cardinality(Joining(c, t)')
             < MaxResends + Cardinality(Requests)
<1> USE ConstantsAssumption
<1>1. /\ req[r].pc = "idle"
      /\ \A s \in Requests : req'[s] = IF s = r THEN txn ELSE req[s]
      /\ UNCHANGED <<now, chan, via, created>>
  BY DEF Begin, TypeOK
<1>2. Sharing(c, t)' = Sharing(c, t) /\ now \in Nat
  BY <1>1 DEF Sharing, Rows, TypeOK
<1>3. t <= now
  <2>1. CASE \E o \in Rows(c)' : via'[o] = "cookie" /\ created'[o] = t
    BY <1>1, <2>1 DEF Dated, Stored, Rows
  <2>2. CASE \E s \in Requests : /\ req'[s].pc = "open" /\ req'[s].op = "cookie"
                                 /\ req'[s].at = t
    BY <1>1, <2>2 DEF Dated, Issues
  <2>3. QED
    BY <2>1, <2>2 DEF Resent
<1>4. CASE txn.op = "cookie" /\ txn.chan = c /\ t = now
  <2> DEFINE W == {o \in Rows(c) : created[o] + Window >= now}
  <2>1. W \subseteq Rows(c) /\ IsFiniteSet(Rows(c))
    BY WindowFinite
  <2>2. IsFiniteSet(W)
    BY <2>1, FS_Subset
  <2>3. ~(Cardinality(W) >= MaxResends)
    BY <1>4 DEF CapReached
  <2>4. Sharing(c, t) \subseteq W
    BY <1>2, <1>4 DEF Sharing, Rows, TypeOK
  <2> HIDE DEF W
  <2>5. Cardinality(W) \in Nat
    BY <2>2, FS_CardinalityType
  <2>6. /\ IsFiniteSet(Sharing(c, t))
        /\ Cardinality(Sharing(c, t)) <= Cardinality(W)
    BY <2>2, <2>4, FS_Subset
  <2>7. Cardinality(Sharing(c, t)) \in Nat
    BY <2>6, FS_CardinalityType
  <2>8. Joining(c, t)' \subseteq Requests
    BY DEF Joining
  <2>9. /\ Cardinality(Joining(c, t)') \in Nat
        /\ Cardinality(Joining(c, t)') <= Cardinality(Requests)
    BY <2>8, MatchingFinite
  <2>10. Cardinality(Requests) \in Nat
    BY FS_CardinalityType
  <2>11. QED
    BY <1>2, <2>3, <2>5, <2>6, <2>7, <2>9, <2>10
<1>5. CASE ~(txn.op = "cookie" /\ txn.chan = c /\ t = now)
  <2>1. Resent(c, t)
    <3>1. CASE \E o \in Rows(c)' : via'[o] = "cookie" /\ created'[o] = t
      BY <1>1, <3>1 DEF Resent, Rows
    <3>2. CASE \E s \in Requests : /\ req'[s].pc = "open" /\ req'[s].op = "cookie"
                                   /\ req'[s].chan = c /\ req'[s].at = t
      BY <1>1, <1>5, <3>2 DEF Resent, Issues
    <3>3. QED
      BY <3>1, <3>2 DEF Resent
  <2>2. Joining(c, t)' \subseteq Joining(c, t)
    BY <1>1, <1>2, <1>3, <1>5 DEF Joining
  <2>3. QED
    BY <1>2, <2>1, <2>2, WindowKept
<1>6. QED
  BY <1>4, <1>5

\* A commit moves a request that joins a window to the codes that share it.
LEMMA WindowsCommit ==
    ASSUME ConcurrentInv, Dated, WindowsFit, NEW r \in Requests, Commit(r),
           NEW c \in Channels, NEW t \in Nat, Resent(c, t)'
    PROVE  Cardinality(Sharing(c, t)') + Cardinality(Joining(c, t)')
             < MaxResends + Cardinality(Requests)
<1>1. TypeOK /\ WritesFit
  BY DEF ConcurrentInv
<1>2. /\ \A s \in Requests : req'[s] = IF s = r THEN Idle ELSE req[s]
      /\ req[r].pc = "open"
      /\ req[r].op \notin Issues => UNCHANGED <<chan, via, created>>
  BY <1>1, CommitRows
<1>3. Joining(c, t)' = Joining(c, t) \ {r}
  BY <1>2 DEF Joining, Idle
<1>4. CASE req[r].op \notin Issues
  <2>1. Sharing(c, t)' = Sharing(c, t)
    BY <1>2, <1>4 DEF Sharing, Rows
  <2>2. Resent(c, t)
    BY <1>2, <1>4 DEF Resent, Rows, Idle
  <2>3. QED
    BY <1>3, <2>1, <2>2, WindowKept
<1>5. CASE req[r].op \in Issues
  <2>1. PICK n \in Otps :
            /\ chan[n] = NoChannel /\ chan'[n] = req[r].chan
            /\ via'[n] = req[r].op /\ created'[n] = req[r].at
            /\ \A o \in Otps : o # n => /\ chan'[o] = chan[o]
                                        /\ via'[o] = via[o]
                                        /\ created'[o] = created[o]
    BY <1>1, <1>5, CommitInserts
  <2>2. Resent(c, t)
    <3>1. CASE \E o \in Rows(c)' : via'[o] = "cookie" /\ created'[o] = t
      <4>1. PICK o \in Otps : chan'[o] = c /\ via'[o] = "cookie" /\ created'[o] = t
        BY <3>1 DEF Rows
      <4>2. CASE o = n
        BY <1>2, <2>1, <4>1, <4>2 DEF Resent
      <4>3. CASE o # n
        BY <2>1, <4>1, <4>3 DEF Resent, Rows
      <4>4. QED
        BY <4>2, <4>3
    <3>2. CASE \E s \in Requests : /\ req'[s].pc = "open" /\ req'[s].op = "cookie"
                                   /\ req'[s].chan = c /\ req'[s].at = t
      BY <1>2, <3>2 DEF Resent, Idle
    <3>3. QED
      BY <3>1, <3>2 DEF Resent
  <2>3. Sharing(c, t)' \subseteq IF r \in Joining(c, t) THEN Sharing(c, t) \union {n}
                                 ELSE Sharing(c, t)
    BY <1>2, <1>5, <2>1 DEF Sharing, Joining, Rows
  <2>4. CASE r \notin Joining(c, t)
    BY <1>3, <2>2, <2>3, <2>4, WindowKept
  <2>5. CASE r \in Joining(c, t)
    <3>1. PICK k \in Nat : k = MaxResends + Cardinality(Requests)
      BY WindowFinite
    <3>2. PICK S : S = Sharing(c, t)
      OBVIOUS
    <3>3. PICK J : J = Joining(c, t)
      OBVIOUS
    <3>4. IsFiniteSet(S) /\ IsFiniteSet(J) /\ Cardinality(S) + Cardinality(J) < k
      BY <2>2, <3>1, <3>2, <3>3, WindowFinite DEF WindowsFit
    <3>5. /\ Cardinality(S) \in Nat /\ Cardinality(J) \in Nat
          /\ IsFiniteSet(S \union {n})
          /\ Cardinality(S \union {n}) <= Cardinality(S) + 1
      <4>1. Cardinality(S) \in Nat /\ Cardinality(J) \in Nat
        BY <3>4, FS_CardinalityType
      <4>2. /\ IsFiniteSet(S \union {n})
            /\ Cardinality(S \union {n}) = IF n \in S THEN Cardinality(S)
                                            ELSE Cardinality(S) + 1
        BY <3>4, FS_AddElement
      <4>3. QED
        BY <4>1, <4>2
    <3>6. IsFiniteSet(J \ {r}) /\ Cardinality(J \ {r}) = Cardinality(J) - 1
      BY <2>5, <3>3, <3>4, FS_RemoveElement
    <3>7. Cardinality(S \union {n}) \in Nat /\ Cardinality(J \ {r}) \in Nat
      BY <3>5, <3>6, FS_CardinalityType
    <3>8. Cardinality(S \union {n}) + Cardinality(J \ {r}) < k
      BY <3>4, <3>5, <3>6, <3>7
    <3>9. Sharing(c, t)' \subseteq S \union {n} /\ Joining(c, t)' \subseteq J \ {r}
      BY <1>3, <2>3, <2>5, <3>2, <3>3
    <3>10. Cardinality(Sharing(c, t)') + Cardinality(Joining(c, t)') < k
      BY <3>5, <3>6, <3>8, <3>9, SmallerSum
    <3>11. QED
      BY <3>1, <3>10
  <2>6. QED
    BY <2>4, <2>5
<1>6. QED
  BY <1>4, <1>5

LEMMA WindowsStep ==
    ASSUME ConcurrentInv, Dated, WindowsFit, [Next]_vars
    PROVE  WindowsFit'
<1> SUFFICES ASSUME NEW c \in Channels, NEW t \in Nat, Resent(c, t)'
             PROVE  Cardinality(Sharing(c, t)') + Cardinality(Joining(c, t)')
                      < MaxResends + Cardinality(Requests)
  BY DEF WindowsFit
<1>1. TypeOK /\ Dated'
  BY DatedStep DEF ConcurrentInv
<1>2. ASSUME UNCHANGED <<chan, via, created>>,
             \A s \in Requests : req'[s].pc = "open" => req'[s] = req[s]
      PROVE  Cardinality(Sharing(c, t)') + Cardinality(Joining(c, t)')
               < MaxResends + Cardinality(Requests)
  <2>1. Sharing(c, t)' = Sharing(c, t)
    BY <1>2 DEF Sharing, Rows
  <2>2. Joining(c, t)' \subseteq Joining(c, t)
    BY <1>2 DEF Joining
  <2>3. Resent(c, t)
    BY <1>2 DEF Resent, Rows
  <2>4. QED
    BY <2>1, <2>2, <2>3, WindowKept
<1>3. ASSUME NEW r \in Requests, Read(r)
      PROVE  Cardinality(Sharing(c, t)') + Cardinality(Joining(c, t)')
               < MaxResends + Cardinality(Requests)
  <2>1. \/ UNCHANGED vars
        \/ \E txn \in RequestState :
               /\ Begin(r, txn) /\ txn.pc = "open"
               /\ txn.op \in Issues => txn.at = now
               /\ txn.op = "cookie" => ~CapReached(txn.chan)
    BY <1>1, <1>3, ReadsBegin DEF Issues
  <2>2. QED
    BY <1>1, <1>2, <2>1, WindowsBegin DEF vars
<1>4. ASSUME NEW r \in Requests, Rollback(r)
      PROVE  Cardinality(Sharing(c, t)') + Cardinality(Joining(c, t)')
               < MaxResends + Cardinality(Requests)
  BY <1>1, <1>2, <1>4 DEF Rollback, TypeOK, Idle
<1>5. QED
  BY <1>2, <1>3, <1>4, WindowsCommit DEF Next, Tick, vars

\* However resends of a channel overlap, the window that ends with one of them
\* holds fewer codes than the cap and the requests in flight together: only the
\* requests that were open when it read can add to what it counted.
THEOREM ResendsAreBounded == Spec => []ResendsBounded
<1>1. Init => WindowsFit
  BY ConstantsAssumption DEF Init, WindowsFit, Resent, Rows, Idle
<1>2. ConcurrentInv /\ Dated /\ WindowsFit /\ [Next]_vars => WindowsFit'
  BY WindowsStep
<1>3. ConcurrentInv /\ Dated /\ WindowsFit => ResendsBounded
  <2> SUFFICES ASSUME ConcurrentInv, Dated, WindowsFit, NEW o \in Otps, via[o] = "cookie"
               PROVE  Cardinality({p \in Rows(chan[o]) :
                            /\ \/ created[p] < created[o]
                               \/ created[p] = created[o] /\ via[p] = "cookie"
                            /\ created[o] <= created[p] + Window})
                        < MaxResends + Cardinality(Requests)
    BY DEF ResendsBounded
  <2>1. PICK c \in Channels : c = chan[o]
    BY DEF Dated
  <2>2. PICK t \in Nat : t = created[o]
    BY DEF ConcurrentInv, TypeOK
  <2>3. Resent(c, t)
    BY <2>1, <2>2 DEF Resent, Rows
  <2>4. Cardinality(Sharing(c, t)) + Cardinality(Joining(c, t))
          < MaxResends + Cardinality(Requests)
    BY <2>3 DEF WindowsFit
  <2>5. /\ Cardinality(Sharing(c, t)) \in Nat /\ Cardinality(Joining(c, t)) \in Nat
        /\ MaxResends + Cardinality(Requests) \in Nat
    BY WindowFinite, FS_CardinalityType
  <2>6. Cardinality(Sharing(c, t)) < MaxResends + Cardinality(Requests)
    BY <2>4, <2>5
  <2>7. QED
    BY <2>1, <2>2, <2>6 DEF Sharing
<1>4. QED
  BY ConcurrentInvariance, DatedInvariance, <1>1, <1>2, <1>3, PTL DEF Spec

----------------------------------------------------------------------------
(* One request at a time: the cooldown                                     *)

LEMMA SpacedStep ==
    ASSUME Serial, ConcurrentInv, Dated, IssuesSpaced, ResendsSpaced, [Next]_vars
    PROVE  IssuesSpaced' /\ ResendsSpaced'
<1> USE ConstantsAssumption
<1>1. TypeOK /\ WritesFit
  BY DEF ConcurrentInv
<1>2. ASSUME UNCHANGED <<chan, via, created>>,
             \A s \in Requests : req'[s].pc = "open" => req'[s] = req[s]
      PROVE  IssuesSpaced' /\ ResendsSpaced'
  BY <1>2 DEF IssuesSpaced, ResendsSpaced, Rows
<1>3. ASSUME NEW r \in Requests, Read(r) PROVE IssuesSpaced' /\ ResendsSpaced'
  <2>1. ASSUME NEW txn \in RequestState, Begin(r, txn), txn.chan \in Channels,
               txn.op \in Issues => txn.at = now,
               txn.op = "cookie" => ~CoolingDown(txn.chan)
        PROVE  IssuesSpaced' /\ ResendsSpaced'
    <3>1. /\ \A s \in Requests : req'[s] = txn
          /\ UNCHANGED <<now, chan, via, created>>
      BY <1>1, <2>1 DEF Begin, Serial, TypeOK
    <3>2. ResendsSpaced'
      BY <3>1 DEF ResendsSpaced
    <3>3. ASSUME NEW o \in Rows(txn.chan)
          PROVE  /\ txn.op \in Issues => created[o] <= txn.at
                 /\ txn.op = "cookie" => created[o] + Cooldown <= txn.at
      <4>1. o \in Stored /\ created[o] \in Nat /\ now \in Nat
        BY <1>1, <2>1, <3>3 DEF Rows, Stored, TypeOK
      <4>2. created[o] <= now
        BY <4>1 DEF Dated
      <4>3. txn.op = "cookie" => ~(now < created[o] + Cooldown) /\ txn.at = now
        BY <2>1, <3>3 DEF CoolingDown, Issues
      <4>4. QED
        BY <2>1, <4>1, <4>2, <4>3
    <3>4. IssuesSpaced'
      BY <3>1, <3>3 DEF IssuesSpaced, Rows
    <3>5. QED
      BY <3>2, <3>4
  <2>2. \/ UNCHANGED vars
        \/ \E txn \in RequestState :
               /\ Begin(r, txn) /\ txn.chan \in Channels
               /\ txn.op \in Issues => txn.at = now
               /\ txn.op = "cookie" => ~CoolingDown(txn.chan)
    BY <1>1, <1>3, ReadsBegin DEF Issues
  <2>3. QED
    BY <1>2, <2>1, <2>2 DEF vars
<1>4. ASSUME NEW r \in Requests, Commit(r) PROVE IssuesSpaced' /\ ResendsSpaced'
  <2>1. /\ \A s \in Requests : req'[s] = Idle
        /\ req[r].pc = "open"
        /\ req[r].op \notin Issues => UNCHANGED <<chan, via, created>>
    BY <1>1, <1>4, CommitRows DEF Serial
  <2>2. IssuesSpaced'
    BY <2>1 DEF IssuesSpaced, Idle
  <2>3. CASE req[r].op \notin Issues
    BY <2>1, <2>2, <2>3 DEF ResendsSpaced
  <2>4. CASE req[r].op \in Issues
    <3>1. PICK n \in Otps :
              /\ chan[n] = NoChannel /\ chan'[n] = req[r].chan /\ req[r].chan \in Channels
              /\ via'[n] = req[r].op /\ created'[n] = req[r].at
              /\ \A o \in Otps : o # n => /\ chan'[o] = chan[o]
                                          /\ via'[o] = via[o]
                                          /\ created'[o] = created[o]
      BY <1>1, <1>4, <2>4, CommitInserts
    <3>2. \A o \in Rows(req[r].chan) :
              /\ created[o] <= req[r].at
              /\ req[r].op = "cookie" => created[o] + Cooldown <= req[r].at
      BY <2>1, <2>4 DEF IssuesSpaced
    <3>3. /\ \A o \in Otps : created[o] \in Nat
          /\ req[r].at \in Nat
      BY <1>1 DEF TypeOK, RequestState
    <3>4. ASSUME NEW o \in Otps, NEW p \in Otps, via'[o] = "cookie", chan'[p] = chan'[o],
                 created'[p] < created'[o]
          PROVE  created'[p] + Cooldown <= created'[o]
      <4>1. CASE o # n /\ p # n
        BY <3>1, <3>4, <4>1 DEF ResendsSpaced
      <4>2. CASE o = n /\ p # n
        BY <3>1, <3>2, <3>4, <4>2 DEF Rows
      <4>3. CASE o # n /\ p = n
        <5>1. o \in Rows(req[r].chan)
          BY <3>1, <3>4, <4>3 DEF Rows
        <5>2. created[o] <= req[r].at
          BY <3>2, <5>1
        <5>3. QED
          BY <3>1, <3>3, <3>4, <4>3, <5>2
      <4>4. CASE o = n /\ p = n
        BY <3>1, <3>3, <3>4, <4>4
      <4>5. QED
        BY <4>1, <4>2, <4>3, <4>4
    <3>5. QED
      BY <2>2, <3>4 DEF ResendsSpaced
  <2>5. QED
    BY <2>3, <2>4
<1>5. ASSUME NEW r \in Requests, Rollback(r) PROVE IssuesSpaced' /\ ResendsSpaced'
  BY <1>1, <1>2, <1>5 DEF Rollback, TypeOK, Idle
<1>6. QED
  BY <1>2, <1>3, <1>4, <1>5 DEF Next, Tick, vars

\* Served one at a time, a resend is a cooldown younger than every older code of
\* its channel, whether that code was revoked or not.
THEOREM SerialResendsSpaced == Serial => (Spec => []ResendsSpaced)
<1> SUFFICES ASSUME Serial PROVE Spec => []ResendsSpaced
  OBVIOUS
<1>1. Init => IssuesSpaced /\ ResendsSpaced
  BY DEF Init, IssuesSpaced, ResendsSpaced, Idle
<1>2. ConcurrentInv /\ Dated /\ IssuesSpaced /\ ResendsSpaced /\ [Next]_vars
      => IssuesSpaced' /\ ResendsSpaced'
  BY SpacedStep
<1>3. QED
  BY ConcurrentInvariance, DatedInvariance, <1>1, <1>2, PTL DEF Spec
=============================================================================
