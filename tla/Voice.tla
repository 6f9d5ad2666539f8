------------------------------- MODULE Voice -------------------------------
(***************************************************************************)
(* Voice questions and what they cost.  A recording sent in a DM is looked *)
(* at from its metadata, charged by the length it declares, downloaded,    *)
(* measured, sent to be transcribed, and asked.  Every recording is a      *)
(* coroutine of its own; what they share is the ledger of seconds, written *)
(* under one advisory lock, and the person's allowance of questions, which *)
(* is memory of the process.                                               *)
(***************************************************************************)
EXTENDS Integers, Sequences, FiniteSets, FiniteSetsExt

CONSTANTS
    Speakers,        \* people who send recordings
    Notes,           \* the recordings
    MaxSeconds,      \* limits.max_seconds
    PersonCap,       \* limits.person_monthly_seconds
    OverallCap,      \* limits.overall_monthly_seconds
    MaxQuestions,    \* questions a person may ask in a window of the limiter
    LimitWindow,     \* that window, in ticks
    Months,          \* the months 1..Months
    MaxTicks,        \* bound on the ticks of the limiter's clock
    MaxStops,        \* bound on the restarts of the bot
    MaxFolds         \* bound on the erasures of each person

ASSUME VoiceAssumption ==
    /\ {MaxSeconds, PersonCap, OverallCap, MaxQuestions, LimitWindow, Months} \subseteq Nat \ {0}
    /\ {MaxTicks, MaxStops, MaxFolds} \subseteq Nat
    /\ IsFiniteSet(Speakers) /\ IsFiniteSet(Notes)

VARIABLES
    linked,      \* who has a row in person_platform_id
    unwilling,   \* person_opt_out
    used,        \* media_usage: seconds by month and person
    strays,      \* media_usage of a person row that nobody is linked to
    folded,      \* media_usage_anonymous, by month
    month,       \* the calendar's
    note,        \* each recording and the coroutine that hears it
    allowance,   \* RateLimiter._events: the ages of a person's questions
    transcribed, \* seconds sent to the endpoint, by month charged and person
    voiceCounts  \* [ticks, stops, folds] so far

voiceVars == <<linked, unwilling, used, strays, folded, month, note, allowance, transcribed,
              voiceCounts>>

Undeclared == 0      \* duration_seconds is None
NotOpus == 0         \* opus_seconds is None
Lengths == 1..(MaxSeconds + 1)
NoNote == [at |-> "none"]
Months_ == 1..Months

(* A recording on its way: where its coroutine is, who sent it and whether  *)
(* they had opted out by then, the charge and the month it is made in.      *)
Recordings ==
    [at: {"peeked", "reserving", "creating", "granted", "sending"}, by: Speakers,
     unwillingly: BOOLEAN, charged: 0..MaxSeconds, month: Months_]

(* Every outcome is one fixed reply, and the coroutine has ended.           *)
Replied == [at |-> "done"]
-----------------------------------------------------------------------------
Total(f) == MapThenSumSet(LAMBDA p : f[p], Speakers)

(* MONTH_USAGE: a person's own seconds, and everybody's.                    *)
Everyone_(m) == Total(used[m]) + Total(strays[m]) + folded[m]

(* charged_seconds                                                          *)
Charged(declared) == IF declared = Undeclared THEN MaxSeconds ELSE declared

(* check_clips: one clip, of a known type, from the CDN, not declared too   *)
(* long.                                                                    *)
ClipRefused(fits, declared) == ~fits \/ declared > MaxSeconds

(* measured_refusal: what was counted is held to the limit and the charge.  *)
(* A mutant: it is held to the limit alone.                                 *)
MeasuredLoosely(actual, charged) == actual = NotOpus \/ actual > MaxSeconds
MeasuredRefusal(actual, charged) ==
    actual = NotOpus \/ actual > MaxSeconds \/ actual > charged

(* LOCK_LEDGER: only a reservation for somebody unseen takes two steps.     *)
LedgerFree == \A n \in Notes : note[n].at # "creating"

(* Whether both caps allow the charge, given the caller's own seconds.      *)
WithinCaps(n, mine) ==
    /\ mine + n.charged <= PersonCap
    /\ Everyone_(n.month) + n.charged <= OverallCap

(* RateLimiter.check, on the events still in the window.                    *)
Allowed(p) == Len(allowance[p]) < MaxQuestions
Asked_(p) == [allowance EXCEPT ![p] = Append(@, 0)]
-----------------------------------------------------------------------------
VoiceInit ==
    /\ linked \in SUBSET Speakers /\ unwilling = {}
    /\ used = [m \in Months_ |-> [p \in Speakers |-> 0]]
    /\ strays = used /\ transcribed = used
    /\ folded = [m \in Months_ |-> 0]
    /\ month = 1
    /\ note = [n \in Notes |-> NoNote]
    /\ allowance = [p \in Speakers |-> <<>>]
    /\ voiceCounts = [ticks |-> 0, stops |-> 0, folds |-> [p \in Speakers |-> 0]]

ledgerVars == <<linked, used, strays, folded>>

(* _answer_voice: the limiter is asked whether a question could be asked,   *)
(* before anything is charged.                                              *)
Arrive(n) ==
    /\ note[n] = NoNote
    /\ \E p \in Speakers :
          note' = [note EXCEPT ![n] =
              IF ~Allowed(p) THEN Replied
              ELSE [at |-> "peeked", by |-> p, unwillingly |-> p \in unwilling,
                    charged |-> 0, month |-> 1]]
    /\ UNCHANGED <<ledgerVars, unwilling, month, allowance, transcribed, voiceCounts>>

(* hear, until it waits for the ledger: the month is the clock's by then.   *)
Hear(n) ==
    /\ note[n].at = "peeked"
    /\ \E fits \in BOOLEAN, declared \in {Undeclared} \cup Lengths :
          note' = [note EXCEPT ![n] =
              IF ClipRefused(fits, declared) THEN Replied
              ELSE [@ EXCEPT !.at = "reserving", !.charged = Charged(declared), !.month = month]]
    /\ UNCHANGED <<ledgerVars, unwilling, month, allowance, transcribed, voiceCounts>>

(* reserve, for somebody who has a row: the check and the charge are one    *)
(* transaction under the lock.                                              *)
Reserve(n) ==
    /\ note[n].at = "reserving" /\ LedgerFree /\ note[n].by \in linked
    /\ LET p == note[n].by
           m == note[n].month
       IN IF p \notin unwilling /\ WithinCaps(note[n], used[m][p])
          THEN /\ note' = [note EXCEPT ![n].at = "granted"]
               /\ used' = [used EXCEPT ![m][p] = @ + note[n].charged]
          ELSE note' = [note EXCEPT ![n] = Replied] /\ UNCHANGED used
    /\ UNCHANGED <<linked, strays, folded, unwilling, month, allowance, transcribed, voiceCounts>>

(* reserve, for somebody unseen: PERSON_OF finds nothing, a row is created  *)
(* and linked, and is charged; when ingest has linked them meanwhile, the   *)
(* link does nothing and the charge is on the row just created.             *)
ReserveUnseen(n) ==
    /\ note[n].at = "reserving" /\ LedgerFree /\ note[n].by \notin linked
    /\ note' = [note EXCEPT ![n].at = "creating"]
    /\ UNCHANGED <<ledgerVars, unwilling, month, allowance, transcribed, voiceCounts>>

ReserveCreated(n) ==
    /\ note[n].at = "creating"
    /\ LET p == note[n].by
           m == note[n].month
           granted == WithinCaps(note[n], 0)
           charge == IF granted THEN note[n].charged ELSE 0
       IN /\ note' = [note EXCEPT ![n] = IF granted THEN [@ EXCEPT !.at = "granted"] ELSE Replied]
          /\ linked' = linked \cup {p}
          /\ IF p \in linked
             THEN strays' = [strays EXCEPT ![m][p] = @ + charge] /\ UNCHANGED used
             ELSE used' = [used EXCEPT ![m][p] = @ + charge] /\ UNCHANGED strays
    /\ UNCHANGED <<folded, unwilling, month, allowance, transcribed, voiceCounts>>

(* The ledger cannot be reached: nothing is charged and nothing is sent.    *)
LedgerFails(n) ==
    /\ note[n].at \in {"reserving", "creating"}
    /\ note' = [note EXCEPT ![n] = Replied]
    /\ UNCHANGED <<ledgerVars, unwilling, month, allowance, transcribed, voiceCounts>>

(* _transcribe: the download, and what is counted of it, decide whether     *)
(* anything is sent.  A download that fails has been charged.               *)
Download(n) ==
    /\ note[n].at = "granted"
    /\ \E fetched \in BOOLEAN, actual \in {NotOpus} \cup Lengths :
          IF ~fetched \/ MeasuredRefusal(actual, note[n].charged)
          THEN note' = [note EXCEPT ![n] = Replied] /\ UNCHANGED transcribed
          ELSE /\ note' = [note EXCEPT ![n].at = "sending"]
               /\ transcribed' = [transcribed EXCEPT ![note[n].month][note[n].by] = @ + actual]
    /\ UNCHANGED <<ledgerVars, unwilling, month, allowance, voiceCounts>>

(* The transcript is asked as a question, and counts as one.                *)
Ask(n) ==
    /\ note[n].at = "sending"
    /\ LET p == note[n].by IN
       \/ note' = [note EXCEPT ![n] = Replied] /\ UNCHANGED allowance
       \/ ~Allowed(p) /\ note' = [note EXCEPT ![n] = Replied] /\ UNCHANGED allowance
       \/ Allowed(p) /\ note' = [note EXCEPT ![n] = Replied] /\ allowance' = Asked_(p)
    /\ UNCHANGED <<ledgerVars, unwilling, month, transcribed, voiceCounts>>
-----------------------------------------------------------------------------
(* A typed question, and time: the oldest events leave the limiter's window *)
(* until the first that is still in it.                                     *)
Type(p) ==
    /\ Allowed(p) /\ allowance' = Asked_(p)
    /\ UNCHANGED <<ledgerVars, unwilling, month, note, transcribed, voiceCounts>>

Aged(ages) ==
    LET left == Min({k \in 0..Len(ages) : k < Len(ages) => ages[k + 1] + 1 < LimitWindow})
    IN  [i \in 1..(Len(ages) - left) |-> ages[left + i] + 1]
Tick ==
    /\ voiceCounts.ticks < MaxTicks
    /\ voiceCounts' = [voiceCounts EXCEPT !.ticks = @ + 1]
    /\ allowance' = [p \in Speakers |-> Aged(allowance[p])]
    /\ UNCHANGED <<ledgerVars, unwilling, month, note, transcribed>>

MonthTurns ==
    /\ month < Months /\ month' = month + 1
    /\ UNCHANGED <<ledgerVars, unwilling, note, allowance, transcribed, voiceCounts>>

(* Ingest archives something a speaker wrote: PostgresStore._person_id.     *)
Spoken(p) ==
    /\ p \notin linked /\ linked' = linked \cup {p}
    /\ UNCHANGED <<unwilling, used, strays, folded, month, note, allowance, transcribed, voiceCounts>>

(* An opt-out needs a row, as everything about a person does.               *)
OptsOut(p) ==
    /\ p \in linked \ unwilling /\ unwilling' = unwilling \cup {p}
    /\ UNCHANGED <<ledgerVars, month, note, allowance, transcribed, voiceCounts>>

(* FOLD_VOICE of an erasure, under the ledger's lock.                       *)
(* A mutant: the rows are deleted and their seconds forgotten.              *)
FoldForgetting(p) == folded
FoldInto(p) == [m \in Months_ |-> folded[m] + used[m][p]]

FoldVoice(p) ==
    /\ LedgerFree /\ voiceCounts.folds[p] < MaxFolds /\ p \in linked
    /\ folded' = FoldInto(p)
    /\ used' = [m \in Months_ |-> [used[m] EXCEPT ![p] = 0]]
    /\ voiceCounts' = [voiceCounts EXCEPT !.folds[p] = @ + 1]
    /\ UNCHANGED <<linked, strays, unwilling, month, note, allowance, transcribed>>

(* The bot restarts: what was under way and the limiter's memory are gone.  *)
Stop ==
    /\ voiceCounts.stops < MaxStops
    /\ voiceCounts' = [voiceCounts EXCEPT !.stops = @ + 1]
    /\ note' = [n \in Notes |-> IF note[n].at \in {"none", "done"} THEN note[n] ELSE Replied]
    /\ allowance' = [p \in Speakers |-> <<>>]
    /\ UNCHANGED <<ledgerVars, unwilling, month, transcribed>>

HearOn(n) ==
    \/ Hear(n) \/ Reserve(n) \/ ReserveUnseen(n) \/ ReserveCreated(n) \/ LedgerFails(n)
    \/ Download(n) \/ Ask(n)

VoiceNext ==
    \/ \E n \in Notes : Arrive(n) \/ HearOn(n)
    \/ \E p \in Speakers : Type(p) \/ Spoken(p) \/ OptsOut(p) \/ FoldVoice(p)
    \/ Tick \/ MonthTurns \/ Stop

(* Every coroutine runs on; each has few steps, so that none is passed over *)
(* for ever when one of them always goes on.                                *)
Hearing == \E n \in Notes : HearOn(n)

VoiceSpec == VoiceInit /\ [][VoiceNext]_voiceVars /\ WF_voiceVars(Hearing)
-----------------------------------------------------------------------------
Seconds == 0..(OverallCap + MaxSeconds)

VoiceTypeOK ==
    /\ linked \subseteq Speakers /\ unwilling \subseteq linked
    /\ {used, strays, transcribed} \subseteq [Months_ -> [Speakers -> Seconds]]
    /\ folded \in [Months_ -> Seconds]
    /\ month \in Months_
    /\ \A n \in Notes :
          note[n] \in {NoNote, Replied} \cup Recordings
    /\ \A p \in Speakers : /\ Len(allowance[p]) <= MaxQuestions
                           /\ \A i \in DOMAIN allowance[p] : allowance[p][i] < LimitWindow

(* The seconds sent to be transcribed in a month's name never pass the      *)
(* deployment's ceiling, however many recordings arrive together, whatever  *)
(* lengths they declare, and though people are erased in between.           *)
CeilingKept == \A m \in Months_ : Total(transcribed[m]) <= OverallCap

(* Nor do one person's pass their own, but for what an erasure made them    *)
(* forget (it starts them anew) and what was charged to a row that ingest's *)
(* archiving of their first message left without an owner.                  *)
OwnCeilingKept ==
    \A m \in Months_, p \in Speakers :
       transcribed[m][p] <= PersonCap * (1 + voiceCounts.folds[p]) + strays[m][p]

(* What was sent has been charged, in the month it was granted: an erasure  *)
(* takes the name away and keeps the seconds.                               *)
SentIsCharged == \A m \in Months_ : Total(transcribed[m]) <= Everyone_(m)

(* The voice of a person who had opted out when they sent it stays here.    *)
UnwillingUnsent == \A n \in Notes : note[n].at \in {"granted", "sending"} => ~note[n].unwillingly

VoiceInv == CeilingKept /\ OwnCeilingKept /\ SentIsCharged /\ UnwillingUnsent

(* Everybody who sends a recording is answered, unless the bot stops.       *)
EveryVoiceAnswered == []<>(\A n \in Notes : note[n].at \in {"none", "done"})
=============================================================================
