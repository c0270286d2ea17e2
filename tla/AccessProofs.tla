---------------------------- MODULE AccessProofs ----------------------------
(* Proofs about Otp, for any number of calls and any limits, and about      *)
(* AccessCache, for any workers, requests, changes and times to live.       *)
EXTENDS Otp, AccessCache, TLAPS

-----------------------------------------------------------------------------
(* Otp.  The inductive invariant.                                           *)

\* What a call is about to write is within the limits it has read.
PendingWithinLimits ==
    \A c \in Calls :
        /\ call[c].write \in {"resend", "block", "wrong", "right"} => otp # Null
        /\ call[c].write = "resend" => call[c].count \in 1 .. MAX_ATTEMPT
        /\ call[c].write = "wrong" => call[c].count \in 1 .. MAX_RETRIES

AtMostOneCall == \A c, d \in Calls : call[c] # Idle /\ call[d] # Idle => c = d

\* What a call that is alone is about to write still fits the row.
PendingIsCurrent ==
    \A c \in Calls :
        /\ call[c].write = "resend" =>
              /\ otp.blocked => age = "old"
              /\ call[c].count # 1 => ~otp.blocked /\ call[c].count = otp.attempt + 1
        /\ call[c].write = "wrong" => ~otp.blocked /\ call[c].count = otp.retries + 1

\* Each code but the last has been answered wrongly less than MAX_RETRIES times.
WrongAnswersSoFar ==
    IF otp = Null THEN wrong = 0
    ELSE wrong <= (otp.attempt - 1) * (MAX_RETRIES - 1) + otp.retries

Alone == AtMostOneCall /\ PendingIsCurrent /\ WrongAnswersSoFar

OtpInv == OtpTypeOK /\ LimitsKept /\ PendingWithinLimits /\ (~overlap => Alone)

-----------------------------------------------------------------------------
(* Types.                                                                  *)

\* The row, when there is one, is a row.
LEMMA RowType ==
    ASSUME OtpTypeOK, otp # Null
    PROVE  /\ otp \in OtpRow
           /\ otp.attempt \in Nat /\ otp.retries \in Nat
           /\ otp.lastCodeVerified \in BOOLEAN /\ otp.blocked \in BOOLEAN
BY DEF OtpTypeOK, OtpRow

\* A row is never Null.
LEMMA NewRowType ==
    ASSUME NEW a \in Nat, NEW r \in Nat, NEW v \in BOOLEAN, NEW b \in BOOLEAN
    PROVE  /\ [attempt |-> a, retries |-> r, lastCodeVerified |-> v, blocked |-> b] \in OtpRow
           /\ [attempt |-> a, retries |-> r, lastCodeVerified |-> v, blocked |-> b] # Null
BY OtpAssumption DEF OtpRow

\* What Begin does to the calls.
LEMMA BeginEffect ==
    ASSUME OtpTypeOK, NEW c \in Calls, NEW w, NEW n \in Nat,
           w \in {"create", "resend", "block", "wrong", "right"}, Begin(c, w, n)
    PROVE  /\ call[c] = Idle
           /\ call' \in [Calls -> Writes]
           /\ call'[c].write = w /\ call'[c].count = n
           /\ \A d \in Calls \ {c} : call'[d] = call[d]
           /\ overlap' \in BOOLEAN
           /\ ~overlap' => ~overlap /\ \A d \in Calls \ {c} : call[d] = Idle
           /\ otp' = otp /\ age' = age /\ wrong' = wrong
<1>1. [write |-> w, count |-> n] \in Writes
  BY DEF Writes
<1>2. QED BY <1>1 DEF OtpTypeOK, Begin

\* What Finish does to the calls.
LEMMA FinishEffect ==
    ASSUME OtpTypeOK, NEW c \in Calls, Finish(c)
    PROVE  /\ call' \in [Calls -> Writes]
           /\ call'[c] = Idle
           /\ \A d \in Calls \ {c} : call'[d] = call[d]
<1>1. Idle \in Writes
  BY DEF Idle, Writes
<1>2. QED BY <1>1 DEF OtpTypeOK, Finish

-----------------------------------------------------------------------------
(* The invariant holds at first and each action keeps it.                  *)

LEMMA OtpInitInv == OtpInit => OtpInv
<1> SUFFICES ASSUME OtpInit PROVE OtpInv
  OBVIOUS
<1>1. OtpTypeOK /\ LimitsKept
  BY DEF OtpInit, OtpTypeOK, LimitsKept, Ages, Idle, Writes
<1>2. \A c \in Calls : call[c] = Idle /\ Idle.write = "none"
  BY DEF OtpInit, Idle
<1>3. PendingWithinLimits /\ Alone
  BY <1>2 DEF OtpInit, PendingWithinLimits, Alone, AtMostOneCall, PendingIsCurrent, WrongAnswersSoFar
<1>4. QED BY <1>1, <1>3 DEF OtpInv

\* A call that begins keeps the invariant when what it is about to write is
\* within the limits and fits the row.
LEMMA BeginKeeps ==
    ASSUME OtpInv, NEW c \in Calls, NEW w, NEW n \in Nat,
           w \in {"create", "resend", "block", "wrong", "right"}, Begin(c, w, n),
           w # "create" => otp # Null,
           w = "resend" =>
              /\ n \in 1 .. MAX_ATTEMPT
              /\ otp.blocked => age = "old"
              /\ n # 1 => ~otp.blocked /\ n = otp.attempt + 1,
           w = "wrong" => n \in 1 .. MAX_RETRIES /\ ~otp.blocked /\ n = otp.retries + 1
    PROVE  OtpInv'
<1>1. OtpTypeOK
  BY DEF OtpInv
<1>2. /\ call' \in [Calls -> Writes]
      /\ call'[c].write = w /\ call'[c].count = n
      /\ \A d \in Calls \ {c} : call'[d] = call[d]
      /\ overlap' \in BOOLEAN
      /\ ~overlap' => ~overlap /\ \A d \in Calls \ {c} : call[d] = Idle
      /\ otp' = otp /\ age' = age /\ wrong' = wrong
  BY <1>1, BeginEffect
<1>3. OtpTypeOK' /\ LimitsKept'
  BY <1>1, <1>2 DEF OtpTypeOK, OtpInv, LimitsKept
<1>4. PendingWithinLimits'
  BY <1>2 DEF PendingWithinLimits, OtpInv
<1>5. ASSUME ~overlap' PROVE Alone'
  <2>1. Alone /\ \A d \in Calls \ {c} : call'[d] = Idle
    BY <1>2, <1>5 DEF OtpInv
  <2>2. AtMostOneCall'
    BY <2>1 DEF AtMostOneCall
  <2>3. PendingIsCurrent'
    BY <2>1, <1>2 DEF PendingIsCurrent, Idle
  <2>4. WrongAnswersSoFar'
    BY <2>1, <1>2 DEF Alone, WrongAnswersSoFar
  <2>5. QED BY <2>2, <2>3, <2>4 DEF Alone
<1>6. QED BY <1>3, <1>4, <1>5 DEF OtpInv

LEMMA SendKeeps == ASSUME OtpInv, NEW c \in Calls, Send(c) PROVE OtpInv'
<1>1. CASE SendFirst(c)
  <2>1. otp = Null /\ Begin(c, "create", 1)
    BY <1>1 DEF SendFirst
  <2>2. QED BY <2>1, BeginKeeps
<1>2. CASE SendAgain(c)
  <2>1. otp # Null /\ MaySend
    BY <1>2 DEF SendAgain
  <2>2. /\ otp.attempt \in 1 .. MAX_ATTEMPT
        /\ otp.blocked \in BOOLEAN /\ otp.lastCodeVerified \in BOOLEAN
    BY <2>1, RowType DEF OtpInv, LimitsKept
  <2>3. CASE Begin(c, "block", 0)
    BY <2>1, <2>3, BeginKeeps
  <2>4. CASE AttemptsSpent # MAX_ATTEMPT /\ Begin(c, "resend", AttemptsSpent + 1)
    <3>1. PICK n \in 1 .. MAX_ATTEMPT :
             n = AttemptsSpent + 1 /\ (n # 1 => ~otp.blocked /\ n = otp.attempt + 1)
      BY <2>1, <2>2, <2>4, OtpAssumption DEF AttemptsSpent, MaySend
    <3>2. otp.blocked => age = "old"
      BY <2>1 DEF MaySend, IsBlockTimeout
    <3>3. Begin(c, "resend", n)
      BY <2>4, <3>1
    <3>4. QED BY <2>1, <3>1, <3>2, <3>3, BeginKeeps
  <2>5. AttemptsSpent \in Nat
    BY <2>2 DEF AttemptsSpent
  <2>6. QED BY <1>2, <2>3, <2>4, <2>5, OtpAssumption DEF SendAgain
<1>3. QED BY <1>1, <1>2 DEF Send

LEMMA VerifyKeeps ==
    ASSUME OtpInv, NEW c \in Calls, NEW isMatched \in BOOLEAN, Verify(c, isMatched)
    PROVE  OtpInv'
<1>1. otp # Null /\ ~otp.blocked
  BY DEF Verify, MayVerify
<1>2. CASE Begin(c, "right", 0)
  BY <1>1, <1>2, BeginKeeps
<1>3. CASE Begin(c, "wrong", otp.retries + 1)
  <2>1. PICK n \in 1 .. MAX_RETRIES : n = otp.retries + 1
    BY <1>1, RowType, OtpAssumption DEF OtpInv, LimitsKept
  <2>2. QED BY <1>1, <1>3, <2>1, BeginKeeps
<1>4. QED BY <1>2, <1>3 DEF Verify

\* A call that has written is idle, and the others are as they were: it is
\* enough to look at the row.
LEMMA WriteKeeps ==
    ASSUME OtpInv, NEW c \in Calls, call[c].write # "none", Finish(c),
           OtpTypeOK', LimitsKept', overlap' = overlap,
           otp # Null => otp' # Null,
           ~overlap => WrongAnswersSoFar'
    PROVE  OtpInv'
<1>1. /\ \A d \in Calls \ {c} : call'[d] = call[d]
      /\ call'[c] = Idle /\ Idle.write = "none"
  BY FinishEffect DEF OtpInv, Idle
<1>2. PendingWithinLimits'
  BY <1>1 DEF OtpInv, PendingWithinLimits
<1>3. ASSUME ~overlap' PROVE Alone'
  <2>1. call[c] # Idle
    BY <1>1
  <2>2. \A d \in Calls : call'[d] = Idle
    BY <1>1, <1>3, <2>1 DEF OtpInv, Alone, AtMostOneCall
  <2>3. AtMostOneCall' /\ PendingIsCurrent'
    BY <1>1, <2>2 DEF AtMostOneCall, PendingIsCurrent
  <2>4. QED BY <1>3, <2>3 DEF Alone
<1>4. QED BY <1>2, <1>3 DEF OtpInv

LEMMA WriteFirstKeeps == ASSUME OtpInv, NEW c \in Calls, WriteFirst(c) PROVE OtpInv'
<1>1. call[c].write # "none" /\ Finish(c) /\ overlap' = overlap /\ wrong' = wrong
  BY DEF WriteFirst
<1>2. call' \in [Calls -> Writes]
  BY <1>1, FinishEffect DEF OtpInv
<1>3. CASE otp = Null
  <2>1. /\ otp' = [attempt |-> 1, retries |-> 0, lastCodeVerified |-> FALSE, blocked |-> FALSE]
        /\ age' = "valid"
    BY <1>3 DEF WriteFirst
  <2>2. otp' \in OtpRow /\ otp' # Null
    BY <2>1, NewRowType
  <2>3. OtpTypeOK'
    BY <1>1, <1>2, <2>1, <2>2 DEF OtpInv, OtpTypeOK, Ages
  <2>4. LimitsKept'
    BY <2>1, OtpAssumption DEF LimitsKept
  <2>5. ASSUME ~overlap PROVE WrongAnswersSoFar'
    <3>1. wrong = 0
      BY <1>3, <2>5 DEF OtpInv, Alone, WrongAnswersSoFar
    <3>2. QED BY <3>1, <1>1, <2>1, <2>2, OtpAssumption DEF WrongAnswersSoFar
  <2>6. QED BY <1>1, <1>3, <2>3, <2>4, <2>5, WriteKeeps
<1>4. CASE otp # Null
  <2>1. otp' = otp /\ age' = age
    BY <1>4 DEF WriteFirst
  <2>2. OtpTypeOK' /\ LimitsKept' /\ (~overlap => WrongAnswersSoFar')
    BY <1>1, <1>2, <2>1 DEF OtpInv, OtpTypeOK, LimitsKept, Alone, WrongAnswersSoFar
  <2>3. QED BY <1>1, <2>1, <2>2, WriteKeeps
<1>5. QED BY <1>3, <1>4

LEMMA WriteResendKeeps == ASSUME OtpInv, NEW c \in Calls, WriteResend(c) PROVE OtpInv'
<1>1. PICK n \in 1 .. MAX_ATTEMPT : n = call[c].count
  BY DEF OtpInv, PendingWithinLimits, WriteResend
<1>2. /\ call[c].write # "none" /\ Finish(c) /\ overlap' = overlap /\ age' = "valid"
      /\ otp' = [attempt |-> n, retries |-> 0, lastCodeVerified |-> FALSE, blocked |-> FALSE]
      /\ wrong' = IF n = 1 THEN 0 ELSE wrong
  BY <1>1 DEF WriteResend
<1>3. otp' \in OtpRow /\ otp' # Null
  <2>1. n \in Nat /\ 0 \in Nat
    OBVIOUS
  <2>2. QED BY <1>2, <2>1, NewRowType
<1>4. OtpTypeOK'
  BY <1>2, <1>3, FinishEffect DEF OtpInv, OtpTypeOK, Ages
<1>5. LimitsKept'
  BY <1>2, OtpAssumption DEF LimitsKept
<1>6. ASSUME ~overlap PROVE WrongAnswersSoFar'
  <2>1. CASE n = 1
    BY <2>1, <1>2, <1>3, OtpAssumption DEF WrongAnswersSoFar
  <2>2. CASE n # 1
    <3>1. otp # Null
      BY DEF WriteResend, OtpInv, PendingWithinLimits
    <3>2. PICK a, r \in Nat : a = otp.attempt /\ r = otp.retries
      BY <3>1, RowType DEF OtpInv
    <3>3. ~otp.blocked /\ n = a + 1
      BY <1>1, <1>6, <2>2, <3>2 DEF WriteResend, OtpInv, Alone, PendingIsCurrent
    <3>4. r <= MAX_RETRIES - 1
      BY <3>1, <3>2, <3>3, OtpAssumption DEF OtpInv, LimitsKept
    <3>5. wrong <= (a - 1) * (MAX_RETRIES - 1) + r
      BY <1>6, <3>1, <3>2 DEF OtpInv, Alone, WrongAnswersSoFar
    <3>6. (n - 1) * (MAX_RETRIES - 1) = (a - 1) * (MAX_RETRIES - 1) + (MAX_RETRIES - 1)
      BY <3>3, OtpAssumption
    <3>7. wrong \in Nat /\ (a - 1) * (MAX_RETRIES - 1) \in Int
      BY OtpAssumption DEF OtpInv, OtpTypeOK
    <3>8. wrong <= (n - 1) * (MAX_RETRIES - 1)
      BY <3>4, <3>5, <3>6, <3>7, OtpAssumption
    <3>9. /\ wrong' = wrong /\ otp' # Null /\ otp'.attempt = n /\ otp'.retries = 0
          /\ (n - 1) * (MAX_RETRIES - 1) + 0 = (n - 1) * (MAX_RETRIES - 1)
      BY <1>2, <1>3, <2>2, OtpAssumption
    <3>10. QED BY <3>8, <3>9 DEF WrongAnswersSoFar
  <2>3. QED BY <2>1, <2>2
<1>7. QED BY <1>2, <1>3, <1>4, <1>5, <1>6, WriteKeeps

LEMMA WriteBlockKeeps == ASSUME OtpInv, NEW c \in Calls, WriteBlock(c) PROVE OtpInv'
<1>1. otp # Null
  BY DEF OtpInv, PendingWithinLimits, WriteBlock
<1>2. /\ call[c].write # "none" /\ Finish(c)
      /\ overlap' = overlap /\ age' = age /\ wrong' = wrong
      /\ otp' = [otp EXCEPT !.blocked = TRUE]
  BY DEF WriteBlock
<1>3. /\ otp' \in OtpRow /\ otp' # Null
      /\ otp'.attempt = otp.attempt /\ otp'.retries = otp.retries /\ otp'.blocked
  BY <1>1, <1>2, RowType, OtpAssumption DEF OtpInv, OtpRow
<1>4. OtpTypeOK'
  BY <1>2, <1>3, FinishEffect DEF OtpInv, OtpTypeOK
<1>5. LimitsKept' /\ (~overlap => WrongAnswersSoFar')
  BY <1>1, <1>2, <1>3 DEF OtpInv, LimitsKept, Alone, WrongAnswersSoFar
<1>6. QED BY <1>2, <1>3, <1>4, <1>5, WriteKeeps

LEMMA WriteWrongKeeps == ASSUME OtpInv, NEW c \in Calls, WriteWrong(c) PROVE OtpInv'
<1>1. otp # Null
  BY DEF OtpInv, PendingWithinLimits, WriteWrong
<1>2. PICK n \in 1 .. MAX_RETRIES : n = call[c].count
  BY DEF OtpInv, PendingWithinLimits, WriteWrong
<1>3. PICK b \in BOOLEAN : b = BlocksAt(n)
  BY DEF BlocksAt
<1>4. /\ call[c].write # "none" /\ Finish(c) /\ overlap' = overlap /\ age' = age
      /\ otp' = [otp EXCEPT !.retries = n, !.blocked = b]
      /\ wrong' = IF overlap THEN wrong ELSE wrong + 1
  BY <1>2, <1>3 DEF WriteWrong
<1>5. /\ otp' \in OtpRow /\ otp' # Null
      /\ otp'.attempt = otp.attempt /\ otp'.retries = n /\ otp'.blocked = b
  <2>1. n \in Nat
    BY OtpAssumption
  <2>2. QED BY <1>1, <2>1, <1>4, RowType, OtpAssumption DEF OtpInv, OtpRow
<1>6. OtpTypeOK'
  BY <1>4, <1>5, FinishEffect DEF OtpInv, OtpTypeOK
<1>7. LimitsKept'
  <2>1. n = MAX_RETRIES => MAX_RETRIES - n = 0
    BY OtpAssumption
  <2>2. n = MAX_RETRIES => b
    BY <1>3, <2>1, Zenon DEF BlocksAt
  <2>3. QED BY <1>1, <1>5, <2>2, OtpAssumption DEF OtpInv, LimitsKept
<1>8. ASSUME ~overlap PROVE WrongAnswersSoFar'
  <2>1. PICK r, k \in Int : r = otp.retries /\ k = (otp.attempt - 1) * (MAX_RETRIES - 1)
    BY <1>1, RowType, OtpAssumption DEF OtpInv
  <2>2. wrong <= k + r /\ wrong \in Nat
    BY <1>1, <1>8, <2>1 DEF OtpInv, Alone, WrongAnswersSoFar, OtpTypeOK
  <2>3. n = r + 1
    BY <1>2, <1>8, <2>1 DEF OtpInv, Alone, PendingIsCurrent, WriteWrong
  <2>4. wrong' <= k + n
    BY <1>4, <1>8, <2>2, <2>3
  <2>5. QED BY <1>5, <2>1, <2>4 DEF WrongAnswersSoFar
<1>9. QED BY <1>1, <1>4, <1>5, <1>6, <1>7, <1>8, WriteKeeps

LEMMA WriteRightKeeps == ASSUME OtpInv, NEW c \in Calls, WriteRight(c) PROVE OtpInv'
<1>1. otp # Null
  BY DEF OtpInv, PendingWithinLimits, WriteRight
<1>2. /\ call[c].write # "none" /\ Finish(c)
      /\ overlap' = overlap /\ age' = age /\ wrong' = wrong
      /\ otp' = [otp EXCEPT !.lastCodeVerified = TRUE]
  BY DEF WriteRight
<1>3. /\ otp' \in OtpRow /\ otp' # Null
      /\ otp'.attempt = otp.attempt /\ otp'.retries = otp.retries
      /\ otp'.blocked = otp.blocked
  BY <1>1, <1>2, RowType, OtpAssumption DEF OtpInv, OtpRow
<1>4. OtpTypeOK'
  BY <1>2, <1>3, FinishEffect DEF OtpInv, OtpTypeOK
<1>5. LimitsKept' /\ (~overlap => WrongAnswersSoFar')
  BY <1>1, <1>2, <1>3 DEF OtpInv, LimitsKept, Alone, WrongAnswersSoFar
<1>6. QED BY <1>2, <1>3, <1>4, <1>5, WriteKeeps

LEMMA OtpTickKeeps == ASSUME OtpInv, OtpTick PROVE OtpInv'
<1>1. /\ otp' = otp /\ call' = call /\ overlap' = overlap /\ wrong' = wrong
      /\ age' \in Ages /\ (age = "old" => age' = "old")
  BY DEF OtpTick, Ages
<1>2. OtpTypeOK' /\ LimitsKept' /\ PendingWithinLimits'
  BY <1>1 DEF OtpInv, OtpTypeOK, LimitsKept, PendingWithinLimits
<1>3. ASSUME ~overlap' PROVE Alone'
  <2>1. Alone
    BY <1>1, <1>3 DEF OtpInv
  <2>2. AtMostOneCall' /\ WrongAnswersSoFar'
    BY <1>1, <2>1 DEF Alone, AtMostOneCall, WrongAnswersSoFar
  <2>3. PendingIsCurrent'
    BY <1>1, <2>1 DEF Alone, PendingIsCurrent
  <2>4. QED BY <2>2, <2>3 DEF Alone
<1>4. QED BY <1>2, <1>3 DEF OtpInv

LEMMA OtpNextKeeps == OtpInv /\ [OtpNext]_ovars => OtpInv'
<1> SUFFICES ASSUME OtpInv, [OtpNext]_ovars PROVE OtpInv'
  OBVIOUS
<1>1. ASSUME NEW c \in Calls, Send(c) PROVE OtpInv'
  BY <1>1, SendKeeps
<1>2. ASSUME NEW c \in Calls, NEW isMatched \in BOOLEAN, Verify(c, isMatched) PROVE OtpInv'
  BY <1>2, VerifyKeeps
<1>3. ASSUME NEW c \in Calls, Write(c) PROVE OtpInv'
  BY <1>3, WriteFirstKeeps, WriteResendKeeps, WriteBlockKeeps, WriteWrongKeeps, WriteRightKeeps
     DEF Write
<1>4. CASE OtpTick
  BY <1>4, OtpTickKeeps
<1>5. CASE UNCHANGED ovars
  BY <1>5 DEF ovars, OtpInv, OtpTypeOK, LimitsKept, PendingWithinLimits, Alone, AtMostOneCall,
              PendingIsCurrent, WrongAnswersSoFar
<1>6. QED BY <1>1, <1>2, <1>3, <1>4, <1>5 DEF OtpNext

-----------------------------------------------------------------------------
(* The theorems.                                                           *)

THEOREM OtpInductive == OtpSpec => []OtpInv
BY OtpInitInv, OtpNextKeeps, PTL DEF OtpSpec

\* Types, for any calls.
THEOREM OtpTypeCorrect == OtpSpec => []OtpTypeOK
<1>1. OtpInv => OtpTypeOK
  BY DEF OtpInv
<1>2. QED BY <1>1, OtpInductive, PTL

\* However the reads and writes of send and verify interleave, neither limit
\* is passed and a code without retries left is blocked.
THEOREM Limits == OtpSpec => []LimitsKept
<1>1. OtpInv => LimitsKept
  BY DEF OtpInv
<1>2. QED BY <1>1, OtpInductive, PTL

\* Calls one after another: at most MAX_ATTEMPT * (MAX_RETRIES - 1) + 1 wrong
\* answers between two resets.
THEOREM WrongAnswers == OtpSpec => []WrongAnswersBounded
<1>1. ASSUME OtpInv, ~overlap PROVE wrong <= MAX_ATTEMPT * (MAX_RETRIES - 1) + 1
  <2>1. wrong \in Nat /\ MAX_ATTEMPT \in Nat /\ MAX_RETRIES \in Nat
        /\ MAX_ATTEMPT >= 1 /\ MAX_RETRIES >= 1
    BY <1>1, OtpAssumption DEF OtpInv, OtpTypeOK
  <2>2. CASE otp = Null
    <3>1. wrong = 0
      BY <1>1, <2>2 DEF OtpInv, Alone, WrongAnswersSoFar
    <3>2. MAX_ATTEMPT * (MAX_RETRIES - 1) >= 0
      BY <2>1
    <3>3. QED BY <3>1, <3>2, <2>1
  <2>3. CASE otp # Null
    <3>1. PICK a, r \in Nat : a = otp.attempt /\ r = otp.retries
      BY <1>1, <2>3, RowType DEF OtpInv
    <3>2. a <= MAX_ATTEMPT /\ r <= MAX_RETRIES
      BY <1>1, <2>3, <3>1, OtpAssumption DEF OtpInv, LimitsKept
    <3>3. wrong <= (a - 1) * (MAX_RETRIES - 1) + r
      BY <1>1, <2>3, <3>1 DEF OtpInv, Alone, WrongAnswersSoFar
    <3>4. (MAX_ATTEMPT - a) * (MAX_RETRIES - 1) >= 0
      BY <2>1, <3>2
    <3>5. /\ MAX_ATTEMPT * (MAX_RETRIES - 1) =
             (MAX_ATTEMPT - a) * (MAX_RETRIES - 1) + (a - 1) * (MAX_RETRIES - 1) + (MAX_RETRIES - 1)
          /\ (MAX_ATTEMPT - a) * (MAX_RETRIES - 1) \in Int
          /\ (a - 1) * (MAX_RETRIES - 1) \in Int
      BY <2>1
    <3>6. QED BY <2>1, <3>2, <3>3, <3>4, <3>5
  <2>4. QED BY <2>2, <2>3
<1>2. OtpInv => WrongAnswersBounded
  BY <1>1 DEF WrongAnswersBounded
<1>3. QED BY <1>2, OtpInductive, PTL

\* Calls one after another: nothing ends a block before blockTimeout.
THEOREM BlockHolds == OtpSpec => BlockLasts
<1>1. ASSUME OtpInv, [OtpNext]_ovars, otp # Null, otp.blocked, age # "old", ~overlap'
      PROVE  otp'.blocked
  <2>1. overlap' = FALSE /\ otp.blocked = TRUE
    BY <1>1, RowType DEF OtpInv
  <2>2. ASSUME NEW c \in Calls, Send(c) PROVE otp' = otp
    BY <2>2 DEF Send, SendFirst, SendAgain, Begin
  <2>3. ASSUME NEW c \in Calls, NEW isMatched \in BOOLEAN, Verify(c, isMatched)
        PROVE  otp' = otp
    BY <2>3 DEF Verify, Begin
  <2>4. ASSUME NEW c \in Calls, WriteFirst(c) PROVE otp' = otp
    BY <1>1, <2>4 DEF WriteFirst
  <2>5. ASSUME NEW c \in Calls, WriteResend(c) PROVE FALSE
    BY <1>1, <2>5 DEF WriteResend, OtpInv, Alone, PendingIsCurrent
  <2>6. ASSUME NEW c \in Calls, WriteWrong(c) PROVE FALSE
    BY <1>1, <2>6 DEF WriteWrong, OtpInv, Alone, PendingIsCurrent
  <2>7. ASSUME NEW c \in Calls, WriteBlock(c) \/ WriteRight(c) PROVE otp'.blocked
    BY <1>1, <2>1, <2>7, RowType DEF WriteBlock, WriteRight, OtpInv, OtpRow
  <2>8. CASE OtpTick
    BY <1>1, <2>8 DEF OtpTick
  <2>9. CASE UNCHANGED ovars
    BY <1>1, <2>9 DEF ovars
  <2>10. QED BY <1>1, <2>2, <2>3, <2>4, <2>5, <2>6, <2>7, <2>8, <2>9 DEF OtpNext, Write
<1>2. OtpInv /\ [OtpNext]_ovars =>
        [otp # Null /\ otp.blocked /\ ~IsBlockTimeout /\ ~overlap' => otp'.blocked]_ovars
  BY <1>1 DEF IsBlockTimeout
<1>3. QED BY <1>2, OtpInductive, PTL DEF OtpSpec, BlockLasts

-----------------------------------------------------------------------------
(* AccessCache.  The inductive invariant.                                   *)

\* Requests under way are at a worker, the others are not.
RequestsPlaced ==
    \A r \in Requests :
        /\ request[r].worker # None => request[r].phase # "idle"
        /\ request[r].phase # "idle" => request[r].worker # None

\* How old what the guard goes by may be.
Recent ==
    /\ status = "Active" => sinceActive = 0
    /\ \A r \in Requests :
          /\ request[r].age <= PATIENCE
          /\ request[r].phase = "yes" /\ request[r].type = "user" =>
                sinceActive <= request[r].age
    /\ \A w \in Workers : cached[w]["user"] # None =>
          sinceActive <= cached[w]["user"] + PATIENCE

\* Until a quiet suspension is written, its worker has nothing on the account.
QuietMeansNothing ==
    \A c \in Changes :
        change[c].phase = "status" /\ change[c].quiet =>
            /\ cached[change[c].worker]["user"] = None
            /\ ~UnderWayAt(change[c].worker)

\* Changes under way are at a worker.
ChangesPlaced ==
    \A c \in Changes :
        /\ change[c].phase # "idle" => change[c].worker \in Workers
        /\ change[c].phase = "status" => change[c].value \in Statuses
        /\ change[c].phase = "role" => change[c].value \in UserRoles

IInv ==
    /\ TypeOK /\ RequestsPlaced /\ ChangesPlaced
    /\ Recent /\ QuietMeansNothing /\ SuspendedAtOnce

-----------------------------------------------------------------------------
(* Types.                                                                  *)

LEMMA RequestType ==
    ASSUME TypeOK, NEW r \in Requests
    PROVE  /\ request[r] \in Request
           /\ request[r].phase \in {"idle", "missed", "yes", "no"}
           /\ request[r].worker \in Workers \cup {None}
           /\ request[r].type \in UserTypes /\ request[r].age \in Nat
BY DEF TypeOK, Request

LEMMA ChangeType ==
    ASSUME TypeOK, NEW c \in Changes
    PROVE  /\ change[c] \in Change
           /\ change[c].phase \in {"idle", "status", "role"}
           /\ change[c].worker \in Workers \cup {None}
           /\ change[c].value \in Statuses \cup UserRoles
           /\ change[c].quiet \in BOOLEAN
BY DEF TypeOK, Change

LEMMA CachedType ==
    ASSUME TypeOK, NEW w \in Workers, NEW t \in UserTypes
    PROVE  /\ cached[w] \in [UserTypes -> 0 .. TTL \cup {None}]
           /\ cached[w][t] \in 0 .. TTL \cup {None}
BY DEF TypeOK

\* An idle entry is an entry.
LEMMA IdleTypes == NoRequest \in Request /\ NoChange \in Change
BY DEF NoRequest, NoChange, Request, Change, UserTypes, Statuses

\* Replacing one cached answer.
LEMMA CachedUpdate ==
    ASSUME TypeOK, NEW w \in Workers, NEW t \in UserTypes, NEW a \in 0 .. TTL \cup {None},
           cached' = [cached EXCEPT ![w][t] = a]
    PROVE  /\ cached' \in [Workers -> [UserTypes -> 0 .. TTL \cup {None}]]
           /\ cached'[w][t] = a
           /\ \A v \in Workers, k \in UserTypes :
                 v # w \/ k # t => cached'[v][k] = cached[v][k]
BY DEF TypeOK

LEMMA InitIInv == Init => IInv
<1> SUFFICES ASSUME Init PROVE IInv
  OBVIOUS
<1>1. TypeOK
  BY IdleTypes DEF Init, TypeOK, Statuses, UserRoles
<1>2. /\ \A r \in Requests : request[r] = NoRequest
      /\ \A c \in Changes : change[c] = NoChange
      /\ \A w \in Workers : cached[w]["user"] = None
      /\ status = "Active" /\ sinceActive = 0
  BY DEF Init, UserTypes
<1>3. RequestsPlaced /\ ChangesPlaced /\ QuietMeansNothing
  BY <1>2 DEF RequestsPlaced, ChangesPlaced, QuietMeansNothing, NoRequest, NoChange
<1>4. Recent /\ SuspendedAtOnce
  BY <1>2, AccessCacheAssumption DEF Recent, SuspendedAtOnce, NoRequest
<1>5. QED BY <1>1, <1>3, <1>4 DEF IInv

-----------------------------------------------------------------------------
(* Requests keep the invariant.                                            *)

LEMMA BeginRequestKeeps ==
    ASSUME IInv, NEW r \in Requests, NEW w \in Workers, NEW t \in UserTypes, BeginRequest(r, w, t)
    PROVE  IInv'
<1> DEFINE q == [phase |-> "missed", worker |-> w, type |-> t, age |-> 0]
<1>1. TypeOK /\ q \in Request
  BY DEF IInv, Request
<1>2. /\ request' \in [Requests -> Request] /\ request'[r] = q
      /\ \A p \in Requests \ {r} : request'[p] = request[p]
  BY <1>1 DEF TypeOK, BeginRequest
<1>3. /\ change' \in [Changes -> Change]
      /\ \A c \in Changes :
            /\ change'[c].phase = change[c].phase /\ change'[c].worker = change[c].worker
            /\ change'[c].value = change[c].value
            /\ change'[c].quiet => change[c].quiet /\ change[c].worker # w
  <2>1. ASSUME NEW c \in Changes
        PROVE  LET d == [change[c] EXCEPT !.quiet = @ /\ change[c].worker # w]
               IN  /\ d \in Change /\ d.phase = change[c].phase /\ d.worker = change[c].worker
                   /\ d.value = change[c].value
                   /\ d.quiet => change[c].quiet /\ change[c].worker # w
    BY <1>1, ChangeType DEF Change
  <2>2. change' = [c \in Changes |->
                     [change[c] EXCEPT !.quiet = @ /\ change[c].worker # w]]
    BY DEF BeginRequest
  <2>3. QED BY <2>1, <2>2
<1>4. /\ status' = status /\ role' = role /\ sinceActive' = sinceActive
      /\ cached' = cached /\ fresh' = fresh
  BY DEF BeginRequest
<1>5. TypeOK'
  BY <1>1, <1>2, <1>3, <1>4 DEF TypeOK
<1>6. RequestsPlaced' /\ Recent'
  BY <1>2, <1>4, AccessCacheAssumption DEF IInv, RequestsPlaced, Recent
<1>7. ChangesPlaced'
  BY <1>3 DEF IInv, ChangesPlaced
<1>8. QuietMeansNothing'
  BY <1>2, <1>3, <1>4 DEF IInv, QuietMeansNothing, UnderWayAt
<1>9. SuspendedAtOnce'
  BY <1>2, <1>4 DEF IInv, SuspendedAtOnce
<1>10. QED BY <1>5, <1>6, <1>7, <1>8, <1>9 DEF IInv

LEMMA ReadStatusKeeps ==
    ASSUME IInv, NEW r \in Requests, ReadStatus(r)
    PROVE  IInv'
<1>1. TypeOK
  BY DEF IInv
<1>2. PICK p \in {"yes", "no"} :
         /\ request' = [request EXCEPT ![r].phase = p]
         /\ p = "yes" /\ request[r].type = "user" => status = "Active"
  BY DEF ReadStatus, Answer
<1>3. /\ request' \in [Requests -> Request]
      /\ request'[r].phase = p /\ request'[r].worker = request[r].worker
      /\ request'[r].type = request[r].type /\ request'[r].age = request[r].age
      /\ \A q \in Requests \ {r} : request'[q] = request[q]
  BY <1>1, <1>2, RequestType DEF TypeOK, Request
<1>4. /\ status' = status /\ role' = role /\ sinceActive' = sinceActive
      /\ cached' = cached /\ change' = change /\ fresh' = fresh
      /\ request[r].phase = "missed"
  BY DEF ReadStatus
<1>5. TypeOK' /\ ChangesPlaced'
  BY <1>1, <1>3, <1>4 DEF TypeOK, IInv, ChangesPlaced
<1>6. RequestsPlaced'
  BY <1>3, <1>4 DEF IInv, RequestsPlaced
<1>7. Recent'
  BY <1>1, <1>2, <1>3, <1>4, RequestType DEF IInv, Recent
<1>8. QuietMeansNothing'
  BY <1>3, <1>4 DEF IInv, QuietMeansNothing, UnderWayAt
<1>9. SuspendedAtOnce'
  BY <1>2, <1>3, <1>4 DEF IInv, SuspendedAtOnce
<1>10. QED BY <1>5, <1>6, <1>7, <1>8, <1>9 DEF IInv

LEMMA CacheAnswerKeeps ==
    ASSUME IInv, NEW r \in Requests, CacheAnswer(r)
    PROVE  IInv'
<1>1. TypeOK /\ request[r].phase \in {"yes", "no"}
  BY DEF IInv, CacheAnswer
<1>2. PICK w \in Workers, t \in UserTypes : w = request[r].worker /\ t = request[r].type
  BY <1>1, RequestType DEF IInv, RequestsPlaced
<1>3. PICK a \in 0 .. TTL \cup {None} :
         /\ cached' = [cached EXCEPT ![w][t] = a]
         /\ a # None => a = 0 /\ request[r].phase = "yes"
  <2>1. cached' = [cached EXCEPT ![w][t] = IF request[r].phase = "yes" THEN 0 ELSE None]
    BY <1>2 DEF CacheAnswer, FirstAge
  <2>2. 0 \in 0 .. TTL
    BY AccessCacheAssumption
  <2>3. CASE request[r].phase = "yes"
    BY <2>1, <2>2, <2>3
  <2>4. CASE request[r].phase # "yes"
    BY <2>1, <2>4
  <2>5. QED BY <2>3, <2>4
<1>4. /\ cached' \in [Workers -> [UserTypes -> 0 .. TTL \cup {None}]]
      /\ cached'[w][t] = a
      /\ \A v \in Workers, k \in UserTypes :
            v # w \/ k # t => cached'[v][k] = cached[v][k]
  BY <1>1, <1>3, CachedUpdate
<1>5. /\ request' \in [Requests -> Request] /\ request'[r] = NoRequest
      /\ \A q \in Requests \ {r} : request'[q] = request[q]
  BY <1>1, IdleTypes DEF TypeOK, CacheAnswer
<1>6. /\ status' = status /\ role' = role /\ sinceActive' = sinceActive
      /\ change' = change /\ fresh' = fresh
  BY DEF CacheAnswer
<1>7. /\ NoRequest.phase = "idle" /\ NoRequest.worker = None /\ NoRequest.age = 0
      /\ "user" \in UserTypes
  BY DEF NoRequest, UserTypes
<1>8. TypeOK' /\ ChangesPlaced'
  BY <1>1, <1>4, <1>5, <1>6 DEF TypeOK, IInv, ChangesPlaced
<1>9. RequestsPlaced'
  BY <1>5, <1>7, AccessCacheAssumption DEF IInv, RequestsPlaced
<1>10. Recent'
  <2>1. ASSUME NEW v \in Workers, cached'[v]["user"] # None
        PROVE  sinceActive <= cached'[v]["user"] + PATIENCE
    <3>1. CASE v = w /\ t = "user"
      <4>1. /\ a = 0 /\ cached'[v]["user"] = 0
            /\ sinceActive <= request[r].age /\ request[r].age <= PATIENCE
        BY <1>2, <1>3, <1>4, <2>1, <3>1 DEF IInv, Recent
      <4>2. sinceActive \in Nat /\ request[r].age \in Nat /\ PATIENCE \in Nat
        BY <1>1, RequestType, AccessCacheAssumption DEF TypeOK
      <4>3. QED BY <4>1, <4>2
    <3>2. CASE ~(v = w /\ t = "user")
      BY <1>4, <1>7, <2>1, <3>2 DEF IInv, Recent
    <3>3. QED BY <3>1, <3>2
  <2>2. QED BY <1>5, <1>6, <1>7, <2>1, AccessCacheAssumption DEF IInv, Recent
<1>11. QuietMeansNothing'
  <2>1. ASSUME NEW c \in Changes, change[c].phase = "status", change[c].quiet
        PROVE  change[c].worker \in Workers /\ change[c].worker # w
    BY <1>2, <2>1 DEF IInv, ChangesPlaced, QuietMeansNothing, UnderWayAt
  <2>2. QED BY <1>4, <1>5, <1>6, <1>7, <2>1, AccessCacheAssumption
            DEF IInv, QuietMeansNothing, UnderWayAt
<1>12. SuspendedAtOnce'
  <2>1. ASSUME status = "Suspended", NEW v \in fresh
        PROVE  v \in Workers /\ cached'[v]["user"] = None
    <3>1. v \in Workers /\ cached[v]["user"] = None
      BY <1>1, <2>1 DEF IInv, SuspendedAtOnce, TypeOK
    <3>2. v = w /\ t = "user" => a = None
      BY <1>2, <1>3, <2>1 DEF IInv, SuspendedAtOnce
    <3>3. QED BY <1>4, <1>7, <3>1, <3>2
  <2>2. QED BY <1>5, <1>6, <1>7, <2>1 DEF IInv, SuspendedAtOnce
<1>13. QED BY <1>8, <1>9, <1>10, <1>11, <1>12 DEF IInv

-----------------------------------------------------------------------------
(* Changes keep the invariant.                                             *)

\* A deletion, of whichever key: a quiet change of the status has deleted the
\* user's.
LEMMA DeleteKeeps ==
    ASSUME IInv, NEW c \in Changes, NEW kind \in {"status", "role"}, NEW w \in Workers,
           NEW key \in UserTypes, NEW value \in Statuses \cup UserRoles,
           kind = "status" => key = "user" /\ value \in Statuses,
           kind = "role" => value \in UserRoles,
           Delete(c, kind, w, key, value)
    PROVE  IInv'
<1>1. TypeOK
  BY DEF IInv
<1>2. /\ cached' \in [Workers -> [UserTypes -> 0 .. TTL \cup {None}]]
      /\ cached'[w][key] = None
      /\ \A v \in Workers, k \in UserTypes : cached'[v][k] = None \/ cached'[v][k] = cached[v][k]
  <2>1. None \in 0 .. TTL \cup {None} /\ cached' = [cached EXCEPT ![w][key] = None]
    BY DEF Delete
  <2>2. /\ cached' \in [Workers -> [UserTypes -> 0 .. TTL \cup {None}]]
        /\ cached'[w][key] = None
        /\ \A v \in Workers, k \in UserTypes :
              v # w \/ k # key => cached'[v][k] = cached[v][k]
    BY <1>1, <2>1, CachedUpdate
  <2>3. QED BY <2>2
<1>3. PICK quiet \in BOOLEAN : quiet = ~UnderWayAt(w)
  BY DEF UnderWayAt
<1>4. [phase |-> kind, worker |-> w, value |-> value, quiet |-> quiet] \in Change
  BY DEF Change
<1>5. /\ change' \in [Changes -> Change]
      /\ change'[c].phase = kind /\ change'[c].worker = w /\ change'[c].value = value
      /\ change'[c].quiet => ~UnderWayAt(w)
      /\ \A d \in Changes \ {c} : change'[d] = change[d]
  <2>1. change' = [change EXCEPT ![c] =
                     [phase |-> kind, worker |-> w, value |-> value, quiet |-> quiet]]
    BY <1>3 DEF Delete
  <2>2. QED BY <1>1, <1>3, <1>4, <2>1 DEF TypeOK
<1>6. /\ status' = status /\ role' = role /\ sinceActive' = sinceActive
      /\ request' = request /\ fresh' = fresh /\ "user" \in UserTypes
  BY DEF Delete, UserTypes
<1>7. TypeOK' /\ RequestsPlaced'
  BY <1>1, <1>2, <1>5, <1>6 DEF TypeOK, IInv, RequestsPlaced
<1>8. ChangesPlaced'
  BY <1>5 DEF IInv, ChangesPlaced
<1>9. Recent'
  BY <1>2, <1>6 DEF IInv, Recent
<1>10. QuietMeansNothing'
  <2>1. ASSUME NEW d \in Changes, change'[d].phase = "status", change'[d].quiet
        PROVE  /\ cached'[change'[d].worker]["user"] = None
               /\ ~UnderWayAt(change'[d].worker)
    <3>1. CASE d = c
      BY <1>2, <1>5, <2>1, <3>1
    <3>2. CASE d # c
      BY <1>2, <1>5, <1>6, <2>1, <3>2 DEF IInv, QuietMeansNothing, ChangesPlaced
    <3>3. QED BY <3>1, <3>2
  <2>2. QED BY <1>6, <2>1 DEF QuietMeansNothing, UnderWayAt
<1>11. SuspendedAtOnce'
  BY <1>1, <1>2, <1>6 DEF IInv, SuspendedAtOnce, TypeOK
<1>12. QED BY <1>7, <1>8, <1>9, <1>10, <1>11 DEF IInv

LEMMA WriteStatusKeeps == ASSUME IInv, NEW c \in Changes, WriteStatus(c) PROVE IInv'
<1>1. TypeOK /\ change[c].phase = "status"
  BY DEF IInv, WriteStatus
<1>2. PICK w \in Workers, s \in Statuses : w = change[c].worker /\ s = change[c].value
  BY <1>1 DEF IInv, ChangesPlaced
<1>3. /\ status' = s
      /\ sinceActive' = (IF s = "Active" THEN 0 ELSE sinceActive)
      /\ fresh' = (IF change[c].quiet THEN {w} ELSE {})
      /\ role' = role /\ cached' = cached /\ request' = request
  BY <1>2 DEF WriteStatus
<1>4. /\ change' \in [Changes -> Change] /\ change'[c] = NoChange
      /\ \A d \in Changes \ {c} : change'[d] = change[d]
      /\ NoChange.phase = "idle"
  BY <1>1, IdleTypes DEF TypeOK, WriteStatus, NoChange
<1>5. sinceActive \in Nat /\ sinceActive' \in Nat /\ sinceActive' <= sinceActive
  BY <1>1, <1>3 DEF TypeOK
<1>6. TypeOK' /\ RequestsPlaced'
  BY <1>1, <1>3, <1>4, <1>5 DEF TypeOK, IInv, RequestsPlaced
<1>7. ChangesPlaced' /\ QuietMeansNothing'
  BY <1>3, <1>4 DEF IInv, ChangesPlaced, QuietMeansNothing, UnderWayAt
<1>8. Recent'
  <2>1. ASSUME NEW r \in Requests, request[r].phase = "yes", request[r].type = "user"
        PROVE  sinceActive' <= request[r].age
    BY <1>1, <1>5, <2>1, RequestType DEF IInv, Recent
  <2>2. ASSUME NEW v \in Workers, cached[v]["user"] # None
        PROVE  sinceActive' <= cached[v]["user"] + PATIENCE
    <3>1. PICK a \in 0 .. TTL : a = cached[v]["user"]
      BY <1>1, <2>2, CachedType DEF UserTypes
    <3>2. a \in Nat /\ PATIENCE \in Nat /\ sinceActive <= a + PATIENCE
      BY <2>2, <3>1, AccessCacheAssumption DEF IInv, Recent
    <3>3. QED BY <1>5, <3>1, <3>2
  <2>3. status' = "Active" => sinceActive' = 0
    BY <1>3
  <2>4. QED BY <1>3, <2>1, <2>2, <2>3 DEF IInv, Recent
<1>9. SuspendedAtOnce'
  BY <1>1, <1>2, <1>3 DEF IInv, QuietMeansNothing, UnderWayAt, SuspendedAtOnce
<1>10. QED BY <1>6, <1>7, <1>8, <1>9 DEF IInv

LEMMA WriteRoleKeeps == ASSUME IInv, NEW c \in Changes, WriteRole(c) PROVE IInv'
<1>1. TypeOK /\ role' \in UserRoles
  BY DEF IInv, WriteRole, ChangesPlaced
<1>2. /\ change' \in [Changes -> Change] /\ change'[c] = NoChange
      /\ \A d \in Changes \ {c} : change'[d] = change[d]
      /\ NoChange.phase = "idle"
  BY <1>1, IdleTypes DEF TypeOK, WriteRole, NoChange
<1>3. /\ status' = status /\ sinceActive' = sinceActive
      /\ cached' = cached /\ request' = request /\ fresh' = fresh
  BY DEF WriteRole
<1>4. TypeOK' /\ RequestsPlaced'
  BY <1>1, <1>2, <1>3 DEF TypeOK, IInv, RequestsPlaced
<1>5. ChangesPlaced' /\ QuietMeansNothing'
  BY <1>2, <1>3 DEF IInv, ChangesPlaced, QuietMeansNothing, UnderWayAt
<1>6. Recent' /\ SuspendedAtOnce'
  BY <1>3 DEF IInv, Recent, SuspendedAtOnce
<1>7. QED BY <1>4, <1>5, <1>6 DEF IInv

-----------------------------------------------------------------------------
(* Workers and the clock keep the invariant.                               *)

LEMMA RespawnKeeps == ASSUME IInv, NEW w \in Workers, Respawn(w) PROVE IInv'
<1>1. TypeOK
  BY DEF IInv
<1>2. /\ cached' \in [Workers -> [UserTypes -> 0 .. TTL \cup {None}]]
      /\ \A v \in Workers : cached'[v]["user"] # None => cached'[v]["user"] = cached[v]["user"]
  BY <1>1 DEF TypeOK, Respawn, UserTypes
<1>3. /\ request' \in [Requests -> Request]
      /\ \A r \in Requests : request'[r] = NoRequest \/ request'[r] = request[r]
  BY <1>1, IdleTypes DEF TypeOK, Respawn
<1>4. /\ change' \in [Changes -> Change]
      /\ \A c \in Changes : change'[c] = NoChange \/ change'[c] = change[c]
  BY <1>1, IdleTypes DEF TypeOK, Respawn
<1>5. /\ status' = status /\ role' = role /\ sinceActive' = sinceActive /\ fresh' = fresh
      /\ NoRequest.phase = "idle" /\ NoRequest.worker = None /\ NoRequest.age = 0
      /\ NoChange.phase = "idle"
  BY DEF Respawn, NoRequest, NoChange
<1>6. TypeOK'
  BY <1>1, <1>2, <1>3, <1>4, <1>5 DEF TypeOK
<1>7. RequestsPlaced' /\ ChangesPlaced'
  BY <1>3, <1>4, <1>5 DEF IInv, RequestsPlaced, ChangesPlaced
<1>8. Recent'
  BY <1>2, <1>3, <1>5, AccessCacheAssumption DEF IInv, Recent
<1>9. QuietMeansNothing'
  BY <1>2, <1>3, <1>4, <1>5, AccessCacheAssumption
     DEF IInv, QuietMeansNothing, UnderWayAt, ChangesPlaced
<1>10. SuspendedAtOnce'
  BY <1>1, <1>2, <1>3, <1>5 DEF IInv, SuspendedAtOnce, TypeOK
<1>11. QED BY <1>6, <1>7, <1>8, <1>9, <1>10 DEF IInv

\* What is not dropped when time passes is one older.
LEMMA AgedType ==
    ASSUME NEW a \in 0 .. TTL \cup {None}
    PROVE  /\ Aged(a) \in 0 .. TTL \cup {None}
           /\ Aged(a) # None => a # None /\ Aged(a) = a + 1
<1>1. CASE a = None \/ a = TTL
  BY <1>1 DEF Aged
<1>2. CASE a \in 0 .. TTL /\ a # TTL
  <2>1. a \in Nat /\ a + 1 \in 0 .. TTL /\ a # None
    BY <1>2, AccessCacheAssumption
  <2>2. Aged(a) = a + 1
    BY <1>2, <2>1 DEF Aged
  <2>3. QED BY <2>1, <2>2
<1>3. QED BY <1>1, <1>2

LEMMA TickKeeps == ASSUME IInv, Tick PROVE IInv'
<1>1. TypeOK
  BY DEF IInv
<1>2. /\ status' = status /\ role' = role /\ change' = change /\ fresh' = fresh
      /\ sinceActive' \in Nat /\ sinceActive' <= sinceActive + 1
      /\ status = "Active" => sinceActive' = 0
  BY <1>1, AccessCacheAssumption DEF TypeOK, Tick
<1>3. /\ cached' \in [Workers -> [UserTypes -> 0 .. TTL \cup {None}]]
      /\ \A w \in Workers, t \in UserTypes :
            cached'[w][t] # None =>
                cached[w][t] \in 0 .. TTL /\ cached[w][t] # None /\ cached'[w][t] = cached[w][t] + 1
  <2>1. cached' = [w \in Workers |-> [t \in UserTypes |-> Aged(cached[w][t])]]
    BY DEF Tick
  <2>2. ASSUME NEW w \in Workers, NEW t \in UserTypes
        PROVE  /\ Aged(cached[w][t]) \in 0 .. TTL \cup {None}
               /\ Aged(cached[w][t]) # None =>
                     /\ cached[w][t] \in 0 .. TTL /\ cached[w][t] # None
                     /\ Aged(cached[w][t]) = cached[w][t] + 1
    BY <1>1, CachedType, AgedType
  <2>3. QED BY <2>1, <2>2
<1>4. /\ request' \in [Requests -> Request]
      /\ \A r \in Requests :
            /\ request'[r].phase = request[r].phase /\ request'[r].worker = request[r].worker
            /\ request'[r].type = request[r].type /\ request'[r].age <= PATIENCE
            /\ request[r].phase # "idle" => request'[r].age = request[r].age + 1
  <2>1. request' = [r \in Requests |->
                      IF request[r].phase = "idle" THEN request[r]
                      ELSE [request[r] EXCEPT !.age = @ + 1]]
    BY DEF Tick
  <2>2. ASSUME NEW r \in Requests, request[r].phase = "idle"
        PROVE  request[r] \in Request /\ request[r].age <= PATIENCE
    BY <1>1, RequestType DEF IInv, Recent
  <2>3. ASSUME NEW r \in Requests, request[r].phase # "idle"
        PROVE  LET q == [request[r] EXCEPT !.age = @ + 1]
               IN  /\ q \in Request /\ q.phase = request[r].phase /\ q.worker = request[r].worker
                   /\ q.type = request[r].type /\ q.age = request[r].age + 1
                   /\ q.age <= PATIENCE
    <3>1. request[r].age \in Nat /\ request[r].age < PATIENCE /\ request[r] \in Request
      BY <1>1, <2>3, RequestType DEF Tick
    <3>2. PICK n \in Nat : n = request[r].age + 1 /\ n <= PATIENCE
      BY <3>1, AccessCacheAssumption
    <3>3. QED BY <3>1, <3>2 DEF Request
  <2>4. QED BY <2>1, <2>2, <2>3
<1>5. "user" \in UserTypes
  BY DEF UserTypes
<1>6. TypeOK' /\ ChangesPlaced'
  BY <1>1, <1>2, <1>3, <1>4 DEF TypeOK, IInv, ChangesPlaced
<1>7. RequestsPlaced'
  BY <1>4 DEF IInv, RequestsPlaced
<1>8. Recent'
  <2>1. ASSUME NEW r \in Requests, request[r].phase = "yes", request[r].type = "user"
        PROVE  sinceActive' <= request'[r].age
    <3>1. PICK n \in Nat : n = request[r].age
      BY <1>1, RequestType
    <3>2. sinceActive <= n /\ sinceActive \in Nat /\ request'[r].age = n + 1
      BY <1>1, <1>4, <2>1, <3>1 DEF IInv, Recent, TypeOK
    <3>3. QED BY <1>2, <3>2
  <2>2. ASSUME NEW w \in Workers, cached'[w]["user"] # None
        PROVE  sinceActive' <= cached'[w]["user"] + PATIENCE
    <3>1. PICK a \in 0 .. TTL : a = cached[w]["user"] /\ a # None /\ cached'[w]["user"] = a + 1
      BY <1>3, <1>5, <2>2
    <3>2. a \in Nat /\ PATIENCE \in Nat /\ sinceActive \in Nat /\ sinceActive <= a + PATIENCE
      BY <1>1, <3>1, AccessCacheAssumption DEF IInv, Recent, TypeOK
    <3>3. QED BY <1>2, <3>1, <3>2
  <2>3. QED BY <1>2, <1>4, <2>1, <2>2 DEF Recent
<1>9. QuietMeansNothing'
  BY <1>2, <1>3, <1>4, <1>5 DEF IInv, QuietMeansNothing, UnderWayAt, ChangesPlaced
<1>10. SuspendedAtOnce'
  BY <1>1, <1>2, <1>3, <1>4, <1>5 DEF IInv, SuspendedAtOnce, TypeOK
<1>11. QED BY <1>6, <1>7, <1>8, <1>9, <1>10 DEF IInv

LEMMA NextKeeps == IInv /\ [Next]_avars => IInv'
<1> SUFFICES ASSUME IInv, [Next]_avars PROVE IInv'
  OBVIOUS
<1>1. ASSUME NEW r \in Requests, Serve(r) PROVE IInv'
  BY <1>1, BeginRequestKeeps, ReadStatusKeeps, CacheAnswerKeeps DEF Serve
<1>2. ASSUME NEW c \in Changes, NEW w \in Workers, NEW s \in Statuses, DeleteForStatus(c, w, s)
      PROVE  IInv'
  <2>1. Delete(c, "status", w, "user", s) /\ "user" \in UserTypes /\ s \in Statuses \cup UserRoles
    BY <1>2 DEF DeleteForStatus, KeyOfStatus, UserTypes
  <2>2. QED BY <2>1, DeleteKeeps
<1>3. ASSUME NEW c \in Changes, NEW w \in Workers, NEW r \in UserRoles, DeleteForRole(c, w, r)
      PROVE  IInv'
  <2>1. PICK k \in UserTypes : Delete(c, "role", w, k, r)
    BY <1>3 DEF DeleteForRole, UserTypes
  <2>2. r \in Statuses \cup UserRoles
    OBVIOUS
  <2>3. QED BY <2>1, <2>2, DeleteKeeps
<1>4. ASSUME NEW c \in Changes, Administer(c) PROVE IInv'
  BY <1>2, <1>3, <1>4, WriteStatusKeeps, WriteRoleKeeps DEF Administer
<1>5. CASE UNCHANGED avars
  BY <1>5 DEF avars, IInv, TypeOK, RequestsPlaced, ChangesPlaced, Recent, QuietMeansNothing,
              UnderWayAt, SuspendedAtOnce
<1>6. QED BY <1>1, <1>4, <1>5, RespawnKeeps, TickKeeps DEF Next

-----------------------------------------------------------------------------
(* The theorems.                                                           *)

THEOREM Inductive == Spec => []IInv
BY InitIInv, NextKeeps, PTL DEF Spec

\* Types, for any cluster.
THEOREM TypeCorrect == Spec => []TypeOK
<1>1. IInv => TypeOK
  BY DEF IInv
<1>2. QED BY <1>1, Inductive, PTL

\* Nobody is let in on a user's token longer after the account was Active
\* than an answer lives and a request takes.
THEOREM Recently == Spec => []YesIsRecent
<1>1. ASSUME IInv PROVE YesIsRecent
  <2>1. ASSUME NEW w \in Workers, cached[w]["user"] # None
        PROVE  sinceActive <= TTL + PATIENCE
    <3>1. PICK a \in 0 .. TTL : a = cached[w]["user"]
      BY <1>1, <2>1, CachedType DEF IInv, UserTypes
    <3>2. sinceActive <= a + PATIENCE /\ sinceActive \in Nat
      BY <1>1, <2>1, <3>1 DEF IInv, Recent, TypeOK
    <3>3. QED BY <3>1, <3>2, AccessCacheAssumption
  <2>2. ASSUME NEW r \in Requests, request[r].phase = "yes", request[r].type = "user"
        PROVE  sinceActive <= PATIENCE
    <3>1. PICK n \in Nat : n = request[r].age
      BY <1>1, RequestType DEF IInv
    <3>2. sinceActive <= n /\ n <= PATIENCE /\ sinceActive \in Nat
      BY <1>1, <2>2, <3>1 DEF IInv, Recent, TypeOK
    <3>3. QED BY <3>2, AccessCacheAssumption
  <2>3. QED BY <2>1, <2>2 DEF YesIsRecent
<1>2. QED BY <1>1, Inductive, PTL

\* A quiet suspension refuses everybody on its worker from the moment it is
\* written.
THEOREM AtOnce == Spec => []SuspendedAtOnce
<1>1. IInv => SuspendedAtOnce
  BY DEF IInv
<1>2. QED BY <1>1, Inductive, PTL

=============================================================================
