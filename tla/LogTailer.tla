----------------------------- MODULE LogTailer -----------------------------
(***************************************************************************)
(* extension/src/logs.ts: LogTailer for one log document.  A tail is what  *)
(* has been received of the log; a poll fetches chunk after chunk for the  *)
(* tail it began with.  Tabs are closed and reopened, by the tree's        *)
(* command (open) or by VS Code (Reopen Closed Editor), while polls and    *)
(* the timer's sweep go on, so a poll may outlive its tail.                *)
(*                                                                         *)
(* The waiting times (nextPollAt) are left out: a poll may begin whenever  *)
(* the timer ticks.  VS Code asks the provider for a document's text when  *)
(* it opens it and after an event of onDidChange for an open document.     *)
(***************************************************************************)
EXTENDS JobLog

CONSTANTS
    Fetches,               \* polls that may be under way, as clients
    MAX_CHUNKS_PER_POLL

LogTail == [text : Seq(Nat), offset : Nat, polling : BOOLEAN]

ASSUME TailerAssumption ==
    /\ Fetches \subseteq Clients
    /\ MAX_CHUNKS_PER_POLL \in Nat \ {0}
    /\ NULL \notin LogTail

VARIABLES
    doc,                   \* "closed", "opening", "provided" or "open"
    tail,                  \* the document's entry in `tails', or NULL
    fetching,              \* [Fetches -> poll under way, or NULL]
    orphan,                \* whether a poll is left whose tail was dropped
    opening,               \* whether an open() has still to poll
    shown,                 \* the text of the document
    changed,               \* an event of onDidChange is to be handled
    skipped                \* text came whose event was not fired (history)

tailerVars == <<doc, tail, fetching, orphan, opening, shown, changed, skipped>>

NewTail == [text |-> <<>>, offset |-> 0, polling |-> FALSE]

\* A poll: the answers it has had.
Fetch == [chunks : 0..MAX_CHUNKS_PER_POLL, gotData : BOOLEAN]

TailerInit ==
    /\ doc = "closed"
    /\ tail = NULL
    /\ fetching = [f \in Fetches |-> NULL]
    /\ orphan = FALSE
    /\ opening = FALSE
    /\ shown = <<>>
    /\ changed = FALSE
    /\ skipped = FALSE

-----------------------------------------------------------------------------
(* Tabs. *)

\* open(): takes the tail there is, or a new one, and has the document opened.
Open ==
    /\ state[watched] # NULL
    /\ opening' = TRUE
    /\ tail' = IF tail = NULL THEN NewTail ELSE tail
    /\ doc' = IF doc = "closed" THEN "opening" ELSE doc
    /\ UNCHANGED <<jobLogVars, fetching, orphan, shown, changed, skipped>>

\* Reopen Closed Editor, recent files: VS Code opens the document by itself.
Reopen ==
    /\ state[watched] # NULL
    /\ doc = "closed"
    /\ doc' = "opening"
    /\ UNCHANGED <<jobLogVars, tail, fetching, orphan, opening, shown, changed, skipped>>

\* provideTextDocumentContent: without a tail a placeholder, here no text.
Provide ==
    /\ doc = "opening"
    /\ doc' = "provided"
    /\ shown' = IF tail = NULL THEN <<>> ELSE tail.text
    /\ UNCHANGED <<jobLogVars, tail, fetching, orphan, opening, changed, skipped>>

DocOpens_NoListener ==
    /\ doc = "provided"
    /\ doc' = "open"
    /\ UNCHANGED <<jobLogVars, tail, fetching, orphan, opening, shown, changed, skipped>>

\* onDidOpenTextDocument: the listener makes a tail if there is none (any more).
DocOpens ==
    /\ doc = "provided"
    /\ doc' = "open"
    /\ tail' = IF tail = NULL THEN NewTail ELSE tail
    /\ UNCHANGED <<jobLogVars, fetching, orphan, opening, shown, changed, skipped>>

TabCloses ==
    /\ doc = "open"
    /\ doc' = "closed"
    /\ shown' = <<>>
    /\ changed' = FALSE
    /\ UNCHANGED <<jobLogVars, tail, fetching, orphan, opening, skipped>>

\* sweep(): the tail of a document that is not open is dropped; a poll for it
\* goes on for an object that nobody sees.
SweepDrops ==
    /\ tail # NULL
    /\ doc # "open"
    /\ tail' = NULL
    /\ orphan' = (orphan \/ \E f \in Fetches : fetching[f] # NULL)
    /\ fetching' = [f \in Fetches |-> NULL]
    /\ requests' = [c \in Clients |-> IF c \in Fetches THEN NULL ELSE requests[c]]
    /\ skipped' = FALSE
    /\ UNCHANGED <<fileVars, refusals, doc, opening, shown, changed>>

-----------------------------------------------------------------------------
(* Polls. *)

StartPoll(f) ==
    /\ fetching[f] = NULL
    /\ fetching' = [fetching EXCEPT ![f] = [chunks |-> 0, gotData |-> FALSE]]
    /\ requests' = [requests EXCEPT ![f] = AskingFor(tail.offset)]
    /\ tail' = [tail EXCEPT !.polling = TRUE]
    /\ UNCHANGED <<fileVars, refusals, doc, orphan, shown, changed, skipped>>

MayPoll_Twice == tail # NULL

MayPoll == tail # NULL /\ ~tail.polling

SweepPolls(f) == doc = "open" /\ MayPoll /\ StartPoll(f) /\ UNCHANGED opening

\* open() polls once the document is there, ...
AfterOpen == opening /\ doc \in {"open", "closed"} /\ opening' = FALSE

OpenPolls(f) == AfterOpen /\ MayPoll /\ StartPoll(f)

\* ... unless a poll is under way or the tail has gone meanwhile.
OpenReturns ==
    /\ AfterOpen /\ ~MayPoll
    /\ UNCHANGED <<jobLogVars, doc, tail, fetching, orphan, shown, changed, skipped>>

Received(f) == [tail EXCEPT !.text = @ \o requests[f].data, !.offset = NextOffset(f)]

\* The loop goes on with the next chunk.
NextChunk(f) ==
    /\ Answered(f)
    /\ requests[f].data # <<>>
    /\ fetching[f].chunks + 1 < MAX_CHUNKS_PER_POLL
    /\ tail' = Received(f)
    /\ fetching' = [fetching EXCEPT ![f].chunks = @ + 1, ![f].gotData = TRUE]
    /\ requests' = [requests EXCEPT ![f] = AskingFor(NextOffset(f))]
    /\ UNCHANGED <<fileVars, refusals, doc, orphan, opening, shown, changed, skipped>>

\* The loop ends.  An event for a document that is not open has no effect.
PollEnds(f) ==
    /\ Answered(f)
    /\ requests[f].data = <<>> \/ fetching[f].chunks + 1 = MAX_CHUNKS_PER_POLL
    /\ tail' = [Received(f) EXCEPT !.polling = FALSE]
    /\ IF fetching[f].gotData \/ requests[f].data # <<>>
       THEN changed' = (changed \/ doc = "open") /\ skipped' = (doc # "open")
       ELSE UNCHANGED <<changed, skipped>>
    /\ fetching' = [fetching EXCEPT ![f] = NULL]
    /\ requests' = [requests EXCEPT ![f] = NULL]
    /\ UNCHANGED <<fileVars, refusals, doc, orphan, opening, shown>>

PollFails_StaysBusy(f) ==
    /\ Refused(f)
    /\ skipped' = (skipped \/ fetching[f].gotData)
    /\ fetching' = [fetching EXCEPT ![f] = NULL]
    /\ requests' = [requests EXCEPT ![f] = NULL]
    /\ UNCHANGED <<fileVars, doc, tail, orphan, opening, shown, changed>>

\* A request fails: what the poll had received stays, its event is not fired.
PollFails(f) ==
    /\ Refused(f)
    /\ tail' = [tail EXCEPT !.polling = FALSE]
    /\ skipped' = (skipped \/ fetching[f].gotData)
    /\ fetching' = [fetching EXCEPT ![f] = NULL]
    /\ requests' = [requests EXCEPT ![f] = NULL]
    /\ UNCHANGED <<fileVars, doc, orphan, opening, shown, changed>>

\* All that is left of an orphan is its event, if it has had data.
OrphanEnds ==
    /\ orphan
    /\ orphan' = FALSE
    /\ changed' \in {changed, doc = "open"}
    /\ UNCHANGED <<jobLogVars, doc, tail, fetching, opening, shown, skipped>>

\* VS Code asks for the text again.
Refreshed ==
    /\ changed /\ doc = "open"
    /\ changed' = FALSE
    /\ shown' = tail.text
    /\ UNCHANGED <<jobLogVars, doc, tail, fetching, orphan, opening, skipped>>

-----------------------------------------------------------------------------
FetchSteps(f) ==
    \/ SweepPolls(f) \/ OpenPolls(f) \/ NextChunk(f) \/ PollEnds(f)
    \/ Serve(f) /\ UNCHANGED tailerVars

Tabs == Open \/ Reopen \/ TabCloses \/ SweepDrops

TailerNext ==
    \/ JobMoves /\ UNCHANGED tailerVars
    \/ Tabs \/ Provide \/ DocOpens \/ OpenReturns \/ OrphanEnds \/ Refreshed
    \/ \E f \in Fetches : FetchSteps(f) \/ PollFails(f)

TailerSpec == JobLogInit /\ TailerInit /\ [][TailerNext]_<<jobLogVars, tailerVars>>

-----------------------------------------------------------------------------
(* Properties. *)

\* The text of a tail is the log from its beginning, without a gap or a
\* repetition, and so is what the document shows of it.
TextIsPrefix ==
    /\ tail # NULL => /\ tail.text = Bytes(0, tail.offset)
                      /\ tail.offset <= written
    /\ shown = Bytes(0, Len(shown)) /\ Len(shown) <= written

\* logs.ts:49-50: however a log tab was opened, it is being tailed.
OpenTabsAreTailed == doc = "open" => tail # NULL

\* When the log stays as it is, an open document gets to show all of it, unless
\* the event for the last text was skipped.
DocumentCatchesUp ==
    <>[](doc = "open" /\ log_path) /\ <>[][written' = written]_written
        => <>[](shown = Bytes(0, written) \/ skipped)
=============================================================================
