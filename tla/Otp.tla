-------------------------------- MODULE Otp --------------------------------
(***************************************************************************)
(* The verification codes of one target over one transport:                *)
(* otp.service.ts.  Each target has its own row, found by its lower-case   *)
(* form, so targets do not disturb each other.                             *)
(*                                                                         *)
(* send and verify take no transaction.  A call reads the row and decides, *)
(* then writes in a later step, and anything may happen in between.  What  *)
(* a call is about to write is its entry in "call".  A call that throws    *)
(* before it writes changes nothing and is no step.                        *)
(***************************************************************************)
EXTENDS Integers

CONSTANTS
    Calls,         \* the calls that may be under way at one time
    MAX_ATTEMPT,   \* maxAttempt of otp.config.ts: codes sent to a target
    MAX_RETRIES,   \* maxRetries: wrong answers to one code
    Null           \* no row

ASSUME OtpAssumption ==
    /\ MAX_ATTEMPT \in Nat \ {0}
    /\ MAX_RETRIES \in Nat \ {0}
    /\ Null \notin [attempt : Nat, retries : Nat,
                    lastCodeVerified : BOOLEAN, blocked : BOOLEAN]

VARIABLES
    otp,       \* the row of table "otp", or Null
    age,       \* the time since lastSentAt
    call,      \* what each call is about to write
    overlap,   \* history: some call has read while another was under way
    wrong      \* history: wrong answers since attempts were last reset

ovars == <<otp, age, call, overlap, wrong>>

-----------------------------------------------------------------------------
(* The schema, and the state of a call.                                    *)

OtpRow == [attempt : Nat, retries : Nat, lastCodeVerified : BOOLEAN, blocked : BOOLEAN]

\* Within timeout, after timeout, after blockTimeout (which is the longer).
Ages == {"valid", "expired", "old"}

Idle == [write |-> "none", count |-> 0]

Writes == [write : {"none", "create", "resend", "block", "wrong", "right"}, count : Nat]

\* Row and call types, and the history variables'.
OtpTypeOK ==
    /\ otp \in OtpRow \cup {Null}
    /\ age \in Ages
    /\ call \in [Calls -> Writes]
    /\ overlap \in BOOLEAN
    /\ wrong \in Nat

OtpInit ==
    /\ otp = Null
    /\ age = "valid"
    /\ call = [c \in Calls |-> Idle]
    /\ overlap = FALSE
    /\ wrong = 0

-----------------------------------------------------------------------------
(* Slips that are easy to make in the definitions below.                   *)

\* AttemptsSpent that forgets to start again after blockTimeout.
AttemptsNeverReset == otp.attempt

\* BlocksAt of the count that was read, not of the new one.
BlocksAtReadCount(count) == MAX_RETRIES - (count - 1) = 0

\* MayVerify without the look at blocked.
MayVerifyBlocked == otp # Null /\ age = "valid"

\* MaySend that looks at the code's own timeout only.
MaySendBlocked == age # "valid" \/ otp.lastCodeVerified

-----------------------------------------------------------------------------
(* send                                                                    *)

IsTimeout == age # "valid"

IsBlockTimeout == age = "old"

\* The two refusals before the attempts are looked at.
MaySend ==
    /\ otp.blocked => IsBlockTimeout
    /\ IsTimeout \/ otp.lastCodeVerified

AttemptsSpent == IF IsBlockTimeout \/ otp.lastCodeVerified THEN 0 ELSE otp.attempt

\* A call under way keeps what it has decided to write.
Begin(c, write, count) ==
    /\ call[c] = Idle
    /\ call' = [call EXCEPT ![c] = [write |-> write, count |-> count]]
    /\ overlap' = (overlap \/ \E d \in Calls \ {c} : call[d] # Idle)
    /\ UNCHANGED <<otp, age, wrong>>

SendFirst(c) ==
    /\ otp = Null
    /\ Begin(c, "create", 1)

SendAgain(c) ==
    /\ otp # Null
    /\ MaySend
    /\ IF MAX_ATTEMPT - AttemptsSpent = 0
       THEN Begin(c, "block", 0)
       ELSE Begin(c, "resend", AttemptsSpent + 1)

-----------------------------------------------------------------------------
(* verify                                                                  *)

MayVerify ==
    /\ otp # Null
    /\ ~otp.blocked
    /\ ~IsTimeout

\* The code given is the one in the row, or is not.
Verify(c, isMatched) ==
    /\ MayVerify
    /\ IF isMatched THEN Begin(c, "right", 0)
       ELSE Begin(c, "wrong", otp.retries + 1)

-----------------------------------------------------------------------------
(* The writes.                                                             *)

Finish(c) == call' = [call EXCEPT ![c] = Idle]

\* create: the second of two first codes fails on the unique key.
WriteFirst(c) ==
    /\ call[c].write = "create"
    /\ Finish(c)
    /\ IF otp = Null
       THEN /\ otp' = [attempt |-> 1, retries |-> 0,
                       lastCodeVerified |-> FALSE, blocked |-> FALSE]
            /\ age' = "valid"
       ELSE UNCHANGED <<otp, age>>
    /\ UNCHANGED <<overlap, wrong>>

WriteResend(c) ==
    /\ call[c].write = "resend"
    /\ Finish(c)
    /\ otp' = [attempt |-> call[c].count, retries |-> 0,
               lastCodeVerified |-> FALSE, blocked |-> FALSE]
    /\ age' = "valid"
    /\ wrong' = IF call[c].count = 1 THEN 0 ELSE wrong
    /\ UNCHANGED overlap

WriteBlock(c) ==
    /\ call[c].write = "block"
    /\ Finish(c)
    /\ otp' = [otp EXCEPT !.blocked = TRUE]
    /\ UNCHANGED <<age, overlap, wrong>>

BlocksAt(count) == MAX_RETRIES - count = 0

\* Wrong answers are counted for as long as no calls have overlapped: after
\* that two may be counted as one.
WriteWrong(c) ==
    /\ call[c].write = "wrong"
    /\ Finish(c)
    /\ otp' = [otp EXCEPT !.retries = call[c].count, !.blocked = BlocksAt(call[c].count)]
    /\ wrong' = IF overlap THEN wrong ELSE wrong + 1
    /\ UNCHANGED <<age, overlap>>

WriteRight(c) ==
    /\ call[c].write = "right"
    /\ Finish(c)
    /\ otp' = [otp EXCEPT !.lastCodeVerified = TRUE]
    /\ UNCHANGED <<age, overlap, wrong>>

-----------------------------------------------------------------------------
OtpTick ==
    /\ otp # Null
    /\ \/ age = "valid" /\ age' = "expired"
       \/ age = "expired" /\ age' = "old"
    /\ UNCHANGED <<otp, call, overlap, wrong>>

Send(c) == SendFirst(c) \/ SendAgain(c)

Write(c) ==
    \/ WriteFirst(c) \/ WriteResend(c) \/ WriteBlock(c)
    \/ WriteWrong(c) \/ WriteRight(c)

OtpNext ==
    \/ \E c \in Calls : Send(c) \/ (\E isMatched \in BOOLEAN : Verify(c, isMatched)) \/ Write(c)
    \/ OtpTick

\* Time passes.  Nobody has to call, and no call has to be answered.
ClockFairness == WF_ovars(OtpTick)

OtpSpec == OtpInit /\ [][OtpNext]_ovars
OtpFairSpec == OtpSpec /\ ClockFairness

-----------------------------------------------------------------------------
(* What must hold.                                                         *)

\* However calls interleave, neither count goes past its limit, and a code
\* whose retries are used up is blocked.  send and verify both compare for
\* equality only (maxAttempt - attempt === 0, maxRetries - retries === 0), so
\* one step past a limit would lift it.
LimitsKept ==
    otp # Null =>
        /\ otp.attempt \in 1 .. MAX_ATTEMPT
        /\ otp.retries <= MAX_RETRIES
        /\ otp.retries = MAX_RETRIES => otp.blocked

\* A target whose calls come one after another is never given more wrong
\* answers between two resets than all codes but the last used up to one below
\* the limit, and the last one fully: a code whose retries are used up is
\* followed by no other before blockTimeout.
WrongAnswersBounded == ~overlap => wrong <= MAX_ATTEMPT * (MAX_RETRIES - 1) + 1

\* A block that blockTimeout has not ended stays, whatever is called, for
\* calls that come one after another: only send, after blockTimeout, ends it.
BlockLasts ==
    [][otp # Null /\ otp.blocked /\ ~IsBlockTimeout /\ ~overlap' => otp'.blocked]_ovars

\* No target is locked out for ever: time and again a new code may be sent,
\* also when attempts and retries have been used up and calls have overlapped.
CodeObtainable == otp # Null /\ MaySend /\ AttemptsSpent < MAX_ATTEMPT
NeverLockedOut == (otp # Null) ~> CodeObtainable
=============================================================================
