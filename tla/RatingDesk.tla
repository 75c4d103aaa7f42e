------------------------------ MODULE RatingDesk ------------------------------
(***************************************************************************)
(* The planner's ratings of its runs (lib/onboarding/planner-feedback.ts   *)
(* and reputation-signal.ts): a quality signal is kept, counted in the     *)
(* specialist's index, and for a good score on a completed run committed   *)
(* on chain; the salt that opens the commitment is kept in                 *)
(* rating-commits.json until a reveal request uses it.  The RatingAccounts *)
(* are the ones of RatingBoard, seen from the operator's side.             *)
(***************************************************************************)
EXTENDS PlannerRuns, Sequences

CONSTANTS
    Signals,    \* requests to the signal tool; each draws a salt of its own
    Reveals,    \* requests to the reveal route
    Scores,     \* scores consumers give
    Millis,     \* bound: the readings of Date.now()
    Faults,     \* TRUE: RPC errors, timeouts and crashes happen
    None        \* no commitment, no salt, nothing held

VARIABLES
    clock,      \* Date.now()
    feedback,   \* planner-feedback.json
    counted,    \* feedbackCount of the specialist's index entry
    salts,      \* rating-commits.json: the entry of every run, or None
    signal,     \* the state of every signal request
    reveal,     \* the state of every reveal request
    chain,      \* the RatingAccount of every run's job
    exposed     \* history: runs whose entry was stored while a reveal awaited

deskVars == <<clock, feedback, counted, salts, signal, reveal, chain, exposed>>

Commitment == [salt : Signals, score : Scores]
Entry == [salt : Signals, score : Scores, revealed : BOOLEAN]
Transaction == {"none", "sent", "landed", "dropped"}

ASSUME ScoreAssumption ==
    /\ Scores \subseteq 1 .. 10 /\ Millis \in Nat /\ Faults \in BOOLEAN
    /\ None \notin Nat /\ None \notin Commitment /\ None \notin Entry

DeskInit(come) ==
    /\ clock = 0
    /\ feedback = <<>>
    /\ counted = 0
    /\ salts = [r \in Runs |-> None]
    /\ signal = [s \in Signals |->
                    [at |-> IF s \in come THEN "new" ELSE "absent",
                     run |-> None, score |-> None, id |-> None, tx |-> "none"]]
    /\ reveal = [v \in Reveals |->
                    [at |-> IF v \in come THEN "new" ELSE "absent",
                     run |-> None, held |-> None, opens |-> None, tx |-> "none"]]
    /\ chain = [r \in Runs |-> [commit |-> None, other |-> "none", scored |-> FALSE]]
    /\ exposed = {}

-----------------------------------------------------------------------------
(* recordPlannerFeedback *)

\* Only the id of a record reads the clock.
Tick ==
    /\ clock < Millis
    /\ \E s \in Signals : signal[s].at = "new"
    /\ clock' = clock + 1
    /\ UNCHANGED <<feedback, counted, salts, signal, reveal, chain, exposed>>

GoodScore(x) == x >= 3
Commits(r, score) == runs[r].satisfied /\ GoodScore(score)

\* A record is written again with the outcome: over the first one with its id,
\* whosever it is.
First(file, id) == CHOOSE n \in DOMAIN file :
                      /\ file[n].id = id
                      /\ \A k \in DOMAIN file : file[k].id = id => n <= k
PushedAgain(file, id, s, outcome) == Append(file, [id |-> id, by |-> s, outcome |-> outcome])
Rewritten(file, id, s, outcome) ==
    [file EXCEPT ![First(file, id)] = [id |-> id, by |-> s, outcome |-> outcome]]

\* What a signal is taken as.
Took(s, r, score, at, tx) ==
    signal' = [signal EXCEPT ![s] =
                  [at |-> at, run |-> r, score |-> score, id |-> clock, tx |-> tx]]

\* The record and the index are written at once, the commitment is sent then.
\* A specialist that has left the index throws between the two; without an
\* operator key, on a blocked target or for a wallet that is no key nothing is
\* sent and the record is written again at once.
Signal(s, r, score) ==
    LET written == Append(feedback, [id |-> clock, by |-> s, outcome |-> "none"])
    IN  /\ signal[s].at = "new"
        /\ runs[r] # NoRun /\ runs[r].routed
        /\ \/ Took(s, r, score, "threw", "none") /\ feedback' = written /\ UNCHANGED counted
           \/ /\ IF Commits(r, score)
                 THEN \/ Took(s, r, score, "commit", "sent") /\ feedback' = written
                      \/ /\ Took(s, r, score, "done", "none")
                         /\ feedback' = Rewritten(written, clock, s, "failed")
                 ELSE Took(s, r, score, "done", "none") /\ feedback' = written
              /\ counted' = counted + 1
        /\ UNCHANGED <<clock, salts, reveal, chain, exposed>>

Awaiting == {v \in Reveals : reveal[v].at = "reveal"}

\* sendAndConfirmTransaction returns: only now the salt is stored.
Stored(s) == [salts EXCEPT ![signal[s].run] =
                [salt |-> s, score |-> signal[s].score, revealed |-> FALSE]]

CommitConfirmed(s) ==
    /\ signal[s].at = "commit" /\ signal[s].tx = "landed"
    /\ salts' = Stored(s)
    /\ exposed' = exposed \cup (IF Awaiting # {} THEN {signal[s].run} ELSE {})
    /\ feedback' = Rewritten(feedback, signal[s].id, s, "committed")
    /\ signal' = [signal EXCEPT ![s].at = "done"]
    /\ UNCHANGED <<clock, counted, reveal, chain>>

\* It throws: the transaction cannot land any more, or nobody knows.
CommitThrows(s) ==
    /\ signal[s].at = "commit"
    /\ Faults \/ signal[s].tx = "dropped"
    /\ feedback' = Rewritten(feedback, signal[s].id, s, "failed")
    /\ signal' = [signal EXCEPT ![s].at = "threw"]
    /\ UNCHANGED <<clock, counted, salts, reveal, chain, exposed>>

-----------------------------------------------------------------------------
(* revealReputationRating *)

\* The file is read before the await and written back after it.
Unrevealed(r, file) == file[r] # None /\ ~file[r].revealed

RevealStarts(v, r) ==
    /\ reveal[v].at = "new" /\ Unrevealed(r, salts)
    /\ reveal' = [reveal EXCEPT ![v] =
                    [at |-> "reveal", run |-> r, held |-> salts, tx |-> "sent",
                     opens |-> [salt |-> salts[r].salt, score |-> salts[r].score]]]
    /\ UNCHANGED <<clock, feedback, counted, salts, signal, chain, exposed>>

MarkedAlone(v) == [r \in Runs |-> IF r = reveal[v].run
                                  THEN [reveal[v].held[r] EXCEPT !.revealed = TRUE]
                                  ELSE None]
Marked(v) == [reveal[v].held EXCEPT ![reveal[v].run].revealed = TRUE]

RevealSeen(v) == reveal[v].tx \in {"sent", "landed"}
RevealDone(v) == reveal[v].tx = "landed"

RevealConfirmed(v) ==
    /\ reveal[v].at = "reveal" /\ RevealDone(v)
    /\ salts' = Marked(v)
    /\ reveal' = [reveal EXCEPT ![v].at = "done", ![v].held = None]
    /\ UNCHANGED <<clock, feedback, counted, signal, chain, exposed>>

RevealThrows(v) ==
    /\ reveal[v].at = "reveal"
    /\ Faults \/ reveal[v].tx = "dropped"
    /\ reveal' = [reveal EXCEPT ![v].at = "threw", ![v].held = None]
    /\ UNCHANGED <<clock, feedback, counted, salts, signal, chain, exposed>>

-----------------------------------------------------------------------------
(* The chain: RatingBoard with the operator as the consumer of every job *)

CommitTaken(r) == chain[r].commit = None /\ chain[r].other \in {"none", "committed"}

CommitLands(s) ==
    /\ signal[s].tx = "sent"
    /\ CommitTaken(signal[s].run)
    /\ signal' = [signal EXCEPT ![s].tx = "landed"]
    /\ chain' = [chain EXCEPT ![signal[s].run].commit =
                    [salt |-> s, score |-> signal[s].score]]
    /\ UNCHANGED <<clock, feedback, counted, salts, reveal, exposed>>

\* Both have committed, not both have revealed, and the opening fits.
RevealTaken(v) ==
    LET r == reveal[v].run
    IN  /\ chain[r].commit = reveal[v].opens
        /\ \/ chain[r].other = "committed"
           \/ chain[r].other = "scored" /\ ~chain[r].scored

\* It may land after its request threw, or was lost with the process.
RevealLands(v) ==
    /\ reveal[v].tx = "sent"
    /\ RevealTaken(v)
    /\ reveal' = [reveal EXCEPT ![v].tx = "landed"]
    /\ chain' = [chain EXCEPT ![reveal[v].run].scored = TRUE]
    /\ UNCHANGED <<clock, feedback, counted, salts, signal, exposed>>

Drop ==
    /\ \/ \E s \in Signals :
            /\ signal[s].tx = "sent"
            /\ Faults \/ ~CommitTaken(signal[s].run)
            /\ signal' = [signal EXCEPT ![s].tx = "dropped"] /\ UNCHANGED reveal
       \/ \E v \in Reveals :
            /\ reveal[v].tx = "sent"
            /\ Faults \/ ~RevealTaken(v)
            /\ reveal' = [reveal EXCEPT ![v].tx = "dropped"] /\ UNCHANGED signal
    /\ UNCHANGED <<clock, feedback, counted, salts, chain, exposed>>

\* The specialist commits, reveals, or the rating of one party expires.  What
\* it does before the operator rates the run can as well come right after it.
OtherParty(r) ==
    /\ \E s \in Signals : signal[s].run = r
    /\ \/ chain[r].other = "none"
          /\ \E o \in {"committed"} \cup (IF chain[r].commit # None THEN {"expired"} ELSE {}) :
                chain' = [chain EXCEPT ![r].other = o]
       \/ chain[r].other = "committed" /\ chain[r].commit # None
          /\ chain' = [chain EXCEPT ![r].other = "scored"]
       \/ chain[r].other = "committed" /\ chain[r].commit = None
          /\ chain' = [chain EXCEPT ![r].other = "expired"]
    /\ UNCHANGED <<clock, feedback, counted, salts, signal, reveal, exposed>>

DeskStep ==
    \/ Tick \/ Drop
    \/ \E s \in Signals :
        \/ \E r \in Runs, score \in Scores : Signal(s, r, score)
        \/ CommitConfirmed(s) \/ CommitThrows(s) \/ CommitLands(s)
    \/ \E v \in Reveals :
        \/ \E r \in Runs : RevealStarts(v, r)
        \/ RevealConfirmed(v) \/ RevealThrows(v) \/ RevealLands(v)
    \/ \E r \in Runs : OtherParty(r)

\* The requests the server has in its memory are gone, the files stay.
DeskCrash ==
    /\ signal' = [s \in Signals |-> IF signal[s].at = "commit"
                                    THEN [signal[s] EXCEPT !.at = "lost"] ELSE signal[s]]
    /\ reveal' = [v \in Reveals |-> IF reveal[v].at = "reveal"
                                    THEN [reveal[v] EXCEPT !.at = "lost", !.held = None]
                                    ELSE reveal[v]]
    /\ UNCHANGED <<clock, feedback, counted, salts, chain, exposed>>
=============================================================================
