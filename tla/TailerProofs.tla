--------------------------- MODULE TailerProofs ---------------------------
(***************************************************************************)
(* Proofs about LogTailer: what a log document shows is the log from its   *)
(* beginning, however tabs, sweeps and polls interleave.  The argument is  *)
(* that at most one request is under way for the tail there is, and that   *)
(* it asks for what follows the tail's text.                               *)
(***************************************************************************)
EXTENDS ClientProofs

TailOK ==
    tail # NULL => /\ tail \in LogTail
                   /\ tail.text = Bytes(0, tail.offset)
                   /\ tail.offset <= written

ShownOK == \E n \in 0..written : shown = Bytes(0, n)

OnlyFetch(f) ==
    /\ tail # NULL /\ tail.polling
    /\ requests[f].offset = tail.offset
    /\ \A h \in Fetches : requests[h] # NULL => h = f

TailerInv ==
    /\ JobLogInv
    /\ TailOK
    /\ ShownOK
    /\ \A f \in Fetches : requests[f] # NULL => OnlyFetch(f)
    /\ OpenTabsAreTailed

-----------------------------------------------------------------------------
LEMMA NoBytes == Bytes(0, 0) = <<>>
<1>1. Bytes(0, 0) \in Seq(Nat) /\ Len(Bytes(0, 0)) = 0
  BY BytesProperties
<1> QED
  BY <1>1, EmptySeq

LEMMA NewTailOK ==
    /\ NewTail \in LogTail /\ NewTail # NULL
    /\ NewTail.text = Bytes(0, NewTail.offset) /\ NewTail.offset = 0
<1>1. NewTail \in LogTail /\ NewTail.text = <<>> /\ NewTail.offset = 0
  BY EmptySeq DEF NewTail, LogTail
<1> QED
  BY <1>1, NoBytes, TailerAssumption

LEMMA TailerStart == JobLogInit /\ TailerInit => TailerInv
<1> SUFFICES ASSUME JobLogInit, TailerInit PROVE TailerInv
  OBVIOUS
<1>1. JobLogInv
  BY JobLogStart
<1>2. tail = NULL /\ shown = <<>> /\ doc = "closed" /\ written = 0
  BY DEF TailerInit, JobLogInit
<1>3. \A f \in Fetches : requests[f] = NULL
  BY TailerAssumption DEF JobLogInit
<1>4. ShownOK
  BY <1>2, NoBytes DEF ShownOK
<1> QED
  BY <1>1, <1>2, <1>3, <1>4 DEF TailerInv, TailOK, OpenTabsAreTailed

\* The file and the rows stay, the requests under way may change.
LEMMA RequestsChange ==
    ASSUME JobLogInv, UNCHANGED fileVars, refusals' \in Nat,
           requests' \in [Clients -> Request \cup {NULL}],
           \A c \in Clients : requests'[c] # NULL => RequestOK(requests'[c], written)
    PROVE  JobLogInv'
BY DEF JobLogInv, fileVars, ledgerVars, LedgerTypeOK

LEMMA AskingOK ==
    ASSUME NEW from \in Nat, NEW end \in Nat, from <= end
    PROVE  /\ AskingFor(from) \in Request /\ AskingFor(from) # NULL
           /\ AskingFor(from).offset = from
           /\ RequestOK(AskingFor(from), end)
<1>1. /\ AskingFor(from) \in Request
      /\ AskingFor(from).offset = from /\ AskingFor(from).data = NULL
  BY DEF AskingFor, Request
<1> QED
  BY <1>1, JobLogAssumption DEF RequestOK

\* An answer is the next piece of the tail's text.
LEMMA AnswerFits ==
    ASSUME TailerInv, NEW f \in Fetches, Answered(f)
    PROVE  /\ Received(f) \in LogTail
           /\ Received(f).text = Bytes(0, Received(f).offset)
           /\ Received(f).offset = NextOffset(f)
           /\ Received(f).polling = tail.polling
           /\ NextOffset(f) \in Nat /\ NextOffset(f) <= written
<1>1. /\ f \in Clients /\ requests[f] # NULL /\ requests[f].data # NULL
  BY TailerAssumption DEF Answered
<1>2. /\ tail # NULL /\ tail \in LogTail
      /\ tail.text = Bytes(0, tail.offset)
      /\ requests[f].offset = tail.offset
  BY <1>1 DEF TailerInv, TailOK, OnlyFetch
<1>3. tail.offset \in Nat /\ written \in Nat /\ RequestOK(requests[f], written)
  BY <1>1, <1>2 DEF LogTail, TailerInv, JobLogInv
<1>4. PICK upto \in tail.offset..written :
            requests[f].data = Bytes(tail.offset, upto)
  BY <1>1, <1>2, <1>3 DEF RequestOK
<1>5. /\ upto \in Nat /\ tail.offset <= upto /\ upto <= written
      /\ 0 \in Nat /\ 0 <= tail.offset /\ 0 <= upto
  BY <1>3
<1>6. Len(requests[f].data) = upto - tail.offset
  BY <1>3, <1>4, <1>5, BytesProperties
<1>7. NextOffset(f) = upto
  BY <1>2, <1>3, <1>5, <1>6 DEF NextOffset
<1>8. tail.text \o requests[f].data = Bytes(0, upto) /\ Bytes(0, upto) \in Seq(Nat)
  <2>1. Bytes(0, tail.offset) \o Bytes(tail.offset, upto) = Bytes(0, upto)
    BY <1>3, <1>5, BytesJoin
  <2>2. Bytes(0, upto) \in Seq(Nat)
    BY <1>5, BytesProperties
  <2> QED
    BY <1>2, <1>4, <2>1, <2>2
<1>9. /\ Received(f) \in LogTail /\ Received(f).text = Bytes(0, upto)
      /\ Received(f).offset = upto /\ Received(f).polling = tail.polling
  BY <1>2, <1>5, <1>7, <1>8 DEF Received, LogTail
<1> QED
  BY <1>5, <1>7, <1>9

-----------------------------------------------------------------------------
(* The steps. *)

\* Tabs, events and the provider leave the requests alone.
LEMMA TailerTabs ==
    ASSUME TailerInv, UNCHANGED jobLogVars,
           tail' = tail \/ (tail = NULL /\ tail' = NewTail),
           shown' \in {shown, <<>>} \/ (tail # NULL /\ shown' = tail.text),
           doc' = "open" => tail' # NULL
    PROVE  TailerInv'
<1>1. UNCHANGED <<state, gpu_ids, queue, written, log_path, requests, refusals>>
  BY DEF jobLogVars, fileVars, ledgerVars
<1>2. JobLogInv' /\ written \in Nat
  BY <1>1 DEF TailerInv, JobLogInv, LedgerTypeOK
<1>3. TailOK'
  BY <1>1, <1>2, NewTailOK DEF TailerInv, TailOK
<1>4. ShownOK'
  <2>1. CASE shown' = shown
    BY <1>1, <2>1 DEF TailerInv, ShownOK
  <2>2. CASE shown' = <<>>
    BY <1>1, <1>2, <2>2, NoBytes DEF ShownOK
  <2>3. CASE tail # NULL /\ shown' = tail.text
    BY <1>1, <2>3 DEF TailerInv, TailOK, ShownOK, LogTail
  <2> QED
    BY <2>1, <2>2, <2>3
<1>5. \A f \in Fetches : requests'[f] # NULL => OnlyFetch(f)'
  <2>1. ASSUME NEW f \in Fetches, requests[f] # NULL
        PROVE  OnlyFetch(f)'
    BY <1>1, <2>1 DEF TailerInv, OnlyFetch
  <2> QED
    BY <1>1, <2>1
<1> QED
  BY <1>2, <1>3, <1>4, <1>5 DEF TailerInv, OpenTabsAreTailed

LEMMA TailerDrops ==
    ASSUME TailerInv, SweepDrops
    PROVE  TailerInv'
<1>1. /\ doc # "open" /\ doc' = doc /\ tail' = NULL /\ shown' = shown
      /\ requests' = [c \in Clients |-> IF c \in Fetches THEN NULL ELSE requests[c]]
      /\ UNCHANGED <<fileVars, refusals>> /\ written' = written
  BY DEF SweepDrops, fileVars
<1>2. /\ requests \in [Clients -> Request \cup {NULL}] /\ refusals \in Nat
      /\ \A c \in Clients : requests[c] # NULL => RequestOK(requests[c], written)
  BY DEF TailerInv, JobLogInv
<1>3. /\ requests' \in [Clients -> Request \cup {NULL}]
      /\ \A c \in Clients : requests'[c] # NULL => requests'[c] = requests[c]
      /\ \A f \in Fetches : requests'[f] = NULL
  BY <1>1, <1>2, TailerAssumption
<1>4. JobLogInv'
  BY <1>1, <1>2, <1>3, RequestsChange DEF TailerInv
<1>5. TailOK' /\ OpenTabsAreTailed'
  BY <1>1 DEF TailOK, OpenTabsAreTailed
<1>6. ShownOK'
  BY <1>1 DEF TailerInv, ShownOK
<1> QED
  BY <1>3, <1>4, <1>5, <1>6 DEF TailerInv

\* A poll begins or goes on: its request is for the end of the tail's text.
LEMMA TailerAsks ==
    ASSUME TailerInv, NEW f \in Fetches, NEW t \in LogTail,
           tail' = t, t.text = Bytes(0, t.offset), t.offset <= written, t.polling,
           \A h \in Fetches : requests[h] # NULL => h = f,
           requests' = [requests EXCEPT ![f] = AskingFor(t.offset)],
           UNCHANGED <<fileVars, refusals, shown, doc>>
    PROVE  TailerInv'
<1>1. /\ t.offset \in Nat /\ t # NULL
      /\ written \in Nat /\ refusals \in Nat /\ f \in Clients
      /\ requests \in [Clients -> Request \cup {NULL}]
      /\ \A c \in Clients : requests[c] # NULL => RequestOK(requests[c], written)
      /\ written' = written /\ shown' = shown
  BY TailerAssumption DEF TailerInv, JobLogInv, LogTail, fileVars
<1>2. /\ AskingFor(t.offset) \in Request /\ AskingFor(t.offset).offset = t.offset
      /\ RequestOK(AskingFor(t.offset), written)
  BY <1>1, AskingOK
<1> DEFINE q == AskingFor(t.offset)
<1> HIDE DEF q
<1>3. q \in Request /\ q.offset = t.offset /\ RequestOK(q, written)
  BY <1>2 DEF q
<1>4. requests' = [requests EXCEPT ![f] = q]
  BY DEF q
<1>5. /\ requests' \in [Clients -> Request \cup {NULL}] /\ requests'[f] = q
      /\ \A c \in Clients : c # f => requests'[c] = requests[c]
  BY <1>1, <1>3, <1>4
<1>6. JobLogInv'
  BY <1>1, <1>3, <1>5, RequestsChange DEF TailerInv
<1>7. TailOK' /\ ShownOK' /\ OpenTabsAreTailed'
  BY <1>1 DEF TailerInv, TailOK, ShownOK, OpenTabsAreTailed
<1>8. ASSUME NEW h \in Fetches, requests'[h] # NULL
      PROVE  OnlyFetch(h)'
  <2>1. \A k \in Fetches : requests'[k] # NULL => k = f
    BY <1>5, TailerAssumption
  <2> QED
    BY <1>1, <1>3, <1>5, <1>8, <2>1 DEF OnlyFetch
<1> QED
  BY <1>6, <1>7, <1>8 DEF TailerInv

\* A poll ends: no request is left.
LEMMA TailerStops ==
    ASSUME TailerInv, NEW f \in Fetches, requests[f] # NULL, NEW t \in LogTail,
           tail' = t, t.text = Bytes(0, t.offset), t.offset <= written,
           requests' = [requests EXCEPT ![f] = NULL],
           UNCHANGED <<fileVars, shown, doc>>, refusals' \in Nat
    PROVE  TailerInv'
<1>1. /\ t # NULL /\ f \in Clients
      /\ requests \in [Clients -> Request \cup {NULL}]
      /\ \A c \in Clients : requests[c] # NULL => RequestOK(requests[c], written)
      /\ written' = written /\ shown' = shown
  BY TailerAssumption DEF TailerInv, JobLogInv, fileVars
<1>2. \A h \in Fetches : requests[h] # NULL => h = f
  BY DEF TailerInv, OnlyFetch
<1>3. /\ requests' \in [Clients -> Request \cup {NULL}]
      /\ \A c \in Clients : requests'[c] # NULL => requests'[c] = requests[c]
      /\ \A h \in Fetches : requests'[h] = NULL
  BY <1>1, <1>2, TailerAssumption
<1>4. JobLogInv'
  BY <1>1, <1>3, RequestsChange DEF TailerInv
<1>5. TailOK' /\ ShownOK' /\ OpenTabsAreTailed'
  BY <1>1 DEF TailerInv, TailOK, ShownOK, OpenTabsAreTailed
<1> QED
  BY <1>3, <1>4, <1>5 DEF TailerInv

LEMMA TailerFetches ==
    ASSUME TailerInv, NEW f \in Fetches, FetchSteps(f) \/ PollFails(f)
    PROVE  TailerInv'
<1>1. /\ f \in Clients /\ refusals \in Nat
      /\ requests[f] # NULL => OnlyFetch(f)
      /\ tail # NULL => /\ tail \in LogTail /\ tail.text = Bytes(0, tail.offset)
                        /\ tail.offset <= written
  BY TailerAssumption DEF TailerInv, JobLogInv, TailOK
<1>2. CASE SweepPolls(f) \/ OpenPolls(f)
  <2> DEFINE t == [tail EXCEPT !.polling = TRUE]
  <2>1. /\ tail # NULL /\ ~tail.polling
        /\ tail' = t
        /\ requests' = [requests EXCEPT ![f] = AskingFor(tail.offset)]
        /\ UNCHANGED <<fileVars, refusals, shown, doc>>
    BY <1>2 DEF SweepPolls, OpenPolls, MayPoll, StartPoll
  <2>2. /\ t \in LogTail /\ t.offset = tail.offset /\ t.text = tail.text /\ t.polling
    BY <1>1, <2>1 DEF LogTail
  <2> HIDE DEF t
  <2>3. \A h \in Fetches : requests[h] # NULL => h = f
    BY <2>1 DEF TailerInv, OnlyFetch
  <2>4. t.text = Bytes(0, t.offset) /\ t.offset <= written
    BY <1>1, <2>1, <2>2
  <2>5. requests' = [requests EXCEPT ![f] = AskingFor(t.offset)]
    BY <2>1, <2>2
  <2> QED
    BY <2>1, <2>2, <2>3, <2>4, <2>5, TailerAsks
<1>3. CASE NextChunk(f)
  <2> DEFINE t == Received(f)
  <2>1. /\ Answered(f) /\ tail' = t
        /\ requests' = [requests EXCEPT ![f] = AskingFor(NextOffset(f))]
        /\ UNCHANGED <<fileVars, refusals, shown, doc>>
    BY <1>3 DEF NextChunk
  <2>2. requests[f] # NULL /\ OnlyFetch(f)
    BY <1>1, <2>1 DEF Answered
  <2>3. /\ t \in LogTail /\ t.text = Bytes(0, t.offset) /\ t.offset = NextOffset(f)
        /\ t.offset <= written /\ t.polling = tail.polling
    BY <2>1, AnswerFits
  <2> HIDE DEF t
  <2>4. t.polling /\ \A h \in Fetches : requests[h] # NULL => h = f
    BY <2>2, <2>3 DEF OnlyFetch
  <2>5. requests' = [requests EXCEPT ![f] = AskingFor(t.offset)]
    BY <2>1, <2>3
  <2> QED
    BY <2>1, <2>3, <2>4, <2>5, TailerAsks
<1>4. CASE PollEnds(f)
  <2> DEFINE t == [Received(f) EXCEPT !.polling = FALSE]
  <2>1. /\ Answered(f) /\ tail' = t
        /\ requests' = [requests EXCEPT ![f] = NULL]
        /\ UNCHANGED <<fileVars, shown, doc>> /\ refusals' = refusals
    BY <1>4 DEF PollEnds
  <2>2. requests[f] # NULL
    BY <2>1 DEF Answered
  <2>3. /\ Received(f) \in LogTail /\ Received(f).text = Bytes(0, Received(f).offset)
        /\ Received(f).offset = NextOffset(f) /\ NextOffset(f) <= written
    BY <2>1, AnswerFits
  <2>4. /\ t \in LogTail /\ t.text = Bytes(0, t.offset) /\ t.offset <= written
    BY <2>3 DEF LogTail
  <2> HIDE DEF t
  <2> QED
    BY <1>1, <2>1, <2>2, <2>4, TailerStops
<1>5. CASE PollFails(f)
  <2> DEFINE t == [tail EXCEPT !.polling = FALSE]
  <2>1. /\ requests[f] # NULL /\ tail' = t
        /\ requests' = [requests EXCEPT ![f] = NULL]
        /\ UNCHANGED <<fileVars, shown, doc>> /\ refusals' = refusals + 1
    BY <1>5 DEF PollFails, Refused
  <2>2. tail # NULL /\ tail \in LogTail
    BY <1>1, <2>1 DEF OnlyFetch
  <2>3. /\ t \in LogTail /\ t.text = Bytes(0, t.offset) /\ t.offset <= written
    BY <1>1, <2>2 DEF LogTail
  <2>4. refusals' \in Nat
    BY <1>1, <2>1
  <2> HIDE DEF t
  <2> QED
    BY <2>1, <2>3, <2>4, TailerStops
<1>6. CASE Serve(f) /\ UNCHANGED tailerVars
  <2>1. /\ JobLogInv' /\ UNCHANGED <<fileVars, refusals>>
        /\ requests[f] # NULL
        /\ requests'[f].offset = requests[f].offset
        /\ \A d \in Clients : d # f => requests'[d] = requests[d]
    BY <1>1, <1>6, JobLogServes DEF TailerInv
  <2>2. /\ written' = written
        /\ UNCHANGED <<doc, tail, shown>>
    BY <1>6, <2>1 DEF fileVars, tailerVars
  <2>3. TailOK' /\ ShownOK' /\ OpenTabsAreTailed'
    BY <2>2 DEF TailerInv, TailOK, ShownOK, OpenTabsAreTailed
  <2>4. \A h \in Fetches : requests'[h] # NULL => h = f
    BY <1>1, <2>1, TailerAssumption DEF OnlyFetch
  <2>5. OnlyFetch(f)'
    BY <1>1, <2>1, <2>2, <2>4 DEF OnlyFetch
  <2>6. \A h \in Fetches : requests'[h] # NULL => OnlyFetch(h)'
    BY <2>4, <2>5
  <2> QED
    BY <2>1, <2>3, <2>6 DEF TailerInv
<1> QED
  BY <1>2, <1>3, <1>4, <1>5, <1>6 DEF FetchSteps

LEMMA TailerStep == TailerInv /\ [TailerNext]_<<jobLogVars, tailerVars>> => TailerInv'
<1> SUFFICES ASSUME TailerInv, [TailerNext]_<<jobLogVars, tailerVars>>
             PROVE  TailerInv'
  OBVIOUS
<1>1. CASE JobMoves /\ UNCHANGED tailerVars
  <2>1. JobLogInv' /\ written' >= written /\ requests' = requests
    BY <1>1, JobLogMoves DEF TailerInv
  <2>2. written \in Nat /\ written' \in Nat /\ UNCHANGED <<doc, tail, shown>>
    BY <1>1, <2>1 DEF TailerInv, JobLogInv, tailerVars
  <2>3. TailOK'
    BY <2>1, <2>2 DEF TailerInv, TailOK, LogTail
  <2>4. ShownOK'
    BY <2>1, <2>2 DEF TailerInv, ShownOK
  <2>5. /\ OpenTabsAreTailed'
        /\ \A f \in Fetches : requests'[f] # NULL => OnlyFetch(f)'
    BY <2>1, <2>2 DEF TailerInv, OpenTabsAreTailed, OnlyFetch
  <2> QED
    BY <2>1, <2>3, <2>4, <2>5 DEF TailerInv
<1>2. CASE SweepDrops
  BY <1>2, TailerDrops
<1>3. CASE \E f \in Fetches : FetchSteps(f) \/ PollFails(f)
  BY <1>3, TailerFetches
<1>4. CASE \/ Open \/ Reopen \/ TabCloses \/ Provide \/ DocOpens
           \/ OpenReturns \/ OrphanEnds \/ Refreshed
           \/ UNCHANGED <<jobLogVars, tailerVars>>
  <2>1. /\ doc = "open" => tail # NULL
        /\ NewTail # NULL
    BY NewTailOK DEF TailerInv, OpenTabsAreTailed
  <2>2. CASE Open \/ DocOpens
    <3>1. /\ UNCHANGED jobLogVars /\ shown' = shown
          /\ tail' = IF tail = NULL THEN NewTail ELSE tail
      BY <2>2 DEF Open, DocOpens
    <3> QED
      BY <2>1, <3>1, TailerTabs
  <2>3. CASE Reopen \/ TabCloses \/ Provide
    <3>1. /\ UNCHANGED jobLogVars /\ tail' = tail /\ doc' # "open"
          /\ shown' \in {shown, <<>>} \/ (tail # NULL /\ shown' = tail.text)
      BY <2>3 DEF Reopen, TabCloses, Provide
    <3> QED
      BY <3>1, TailerTabs
  <2>4. CASE OpenReturns \/ OrphanEnds \/ Refreshed
             \/ UNCHANGED <<jobLogVars, tailerVars>>
    <3>1. /\ UNCHANGED jobLogVars /\ tail' = tail /\ doc' = doc
          /\ shown' = shown \/ (doc = "open" /\ shown' = tail.text)
      BY <2>4 DEF OpenReturns, OrphanEnds, Refreshed, tailerVars
    <3> QED
      BY <2>1, <3>1, TailerTabs
  <2> QED
    BY <1>4, <2>2, <2>3, <2>4
<1> QED
  BY <1>1, <1>2, <1>3, <1>4 DEF TailerNext, Tabs

\* However tabs are opened and closed, however often the timer and the commands
\* poll and whichever requests fail, the text of a log document is the log from
\* its beginning (logs.ts:127-150).
THEOREM DocumentShowsTheLog == TailerSpec => []TextIsPrefix
<1>1. JobLogInit /\ TailerInit => TailerInv
  BY TailerStart
<1>2. TailerInv /\ [TailerNext]_<<jobLogVars, tailerVars>> => TailerInv'
  BY TailerStep
<1>3. TailerInv => TextIsPrefix
  <2> SUFFICES ASSUME TailerInv PROVE TextIsPrefix
    OBVIOUS
  <2>1. PICK n \in 0..written : shown = Bytes(0, n)
    BY DEF TailerInv, ShownOK
  <2>2. n \in Nat /\ n <= written /\ 0 \in Nat /\ 0 <= n /\ n - 0 = n
    BY DEF TailerInv, JobLogInv
  <2>3. Len(Bytes(0, n)) = n
    BY <2>2, BytesProperties
  <2> QED
    BY <2>1, <2>2, <2>3 DEF TailerInv, TailOK, TextIsPrefix
<1> QED
  BY <1>1, <1>2, <1>3, PTL DEF TailerSpec

\* A log tab that is open is being tailed, whichever way it was opened and
\* whatever the sweep dropped before (logs.ts:49-50).
THEOREM OpenTabsHaveTails == TailerSpec => []OpenTabsAreTailed
<1>1. TailerInv => OpenTabsAreTailed
  BY DEF TailerInv
<1> QED
  BY <1>1, TailerStart, TailerStep, PTL DEF TailerSpec
=============================================================================
