---------------------------- MODULE UpkeepProofs ----------------------------
(***************************************************************************)
(* The invariants of the parts of Upkeep, for every number of processes,   *)
(* connections, projects, contents, columns and faults: what holds when a  *)
(* part begins, and what its steps keep.  ServicesProofs makes theorems of *)
(* them.                                                                   *)
(***************************************************************************)
EXTENDS Upkeep, FiniteSetTheorems, SequenceTheorems, TLAPS

-----------------------------------------------------------------------------
(* ModelClient *)

Token == {"open", "close", "fact", "string"}

LEMMA TextAndWindow == DupWindow \in Nat /\ Text \subseteq Seq(Token)
BY Zenon, UpkeepAssumption DEF Token

LEMMA SameDepth == \A S : Calling!Cardinality(S) = Cardinality(S)
BY Zenon DEF Cardinality, IsFiniteSet, Calling!Cardinality, Calling!IsFiniteSet

LEMMA FlatText ==
    ASSUME NEW text, NEW n, \A i \in 1 .. n : text[i] \in {"fact", "string"}
    PROVE  Calling!Depth(text, n) = 0
<1>1. {i \in 1 .. n : text[i] = "open"} = {} /\ {i \in 1 .. n : text[i] = "close"} = {}
  OBVIOUS
<1>2. Calling!Cardinality({}) = 0
  BY SameDepth, FS_EmptySet
<1>3. 0 - 0 = 0
  OBVIOUS
<1> QED
  BY ONLY <1>1, <1>2, <1>3 DEF Calling!Depth

\* The array is from the first bracket, which is where nothing is open before it, to the first
\* one that closes it.
LEMMA FirstArray ==
    ASSUME NEW text \in Seq(Token), NEW m \in DOMAIN text, NEW n \in DOMAIN text, m < n,
           \A i \in 1 .. m - 1 : text[i] \in {"fact", "string"},
           text[m] = "open", text[n] = "close", Calling!Depth(text, n) = 0,
           \A i \in m .. n - 1 : Calling!Depth(text, i) > 0
    PROVE  Calling!extractJSON(text) = SubSeq(text, m, n)
<1> DEFINE ends == {k \in DOMAIN text : text[k] = "close" /\ Calling!Depth(text, k) = 0}
           firsts == {k \in 1 .. n : text[k] = "open" /\ Calling!Depth(text, k - 1) = 0}
<1>1. DOMAIN text = 1 .. Len(text) /\ Len(text) \in Nat /\ m \in Nat /\ n \in Nat /\ 1 <= m
  OBVIOUS
<1>2. n \in ends /\ \A k \in ends : n <= k
  <2>1. ASSUME NEW k \in ends, ~ n <= k
        PROVE  FALSE
    <3>1. k \in 1 .. Len(text) /\ text[k] = "close" /\ Calling!Depth(text, k) = 0
      BY <1>1
    <3>2. k \in 1 .. m - 1 \/ k \in m .. n - 1
      BY <1>1, <2>1, <3>1
    <3>3. ~ Calling!Depth(text, k) > 0
      BY <3>1
    <3> QED
      BY ONLY <3>1, <3>2, <3>3, \A i \in 1 .. m - 1 : text[i] \in {"fact", "string"},
              \A i \in m .. n - 1 : Calling!Depth(text, i) > 0
  <2> QED
    BY <2>1
<1>3. (CHOOSE k \in ends : \A l \in ends : k <= l) = n /\ ends # {}
  <2>1. \A k \in ends : (\A l \in ends : k <= l) => k = n
    BY <1>1, <1>2
  <2> HIDE DEF ends
  <2> QED
    BY ONLY <1>2, <2>1
<1>4. Calling!Depth(text, m - 1) = 0
  BY FlatText
<1>5. m \in firsts /\ \A k \in firsts : k <= m
  <2>1. ASSUME NEW k \in firsts, ~ k <= m
        PROVE  FALSE
    <3>1. k - 1 \in m .. n - 1 /\ Calling!Depth(text, k - 1) = 0
      BY <1>1, <2>1
    <3>2. ~ Calling!Depth(text, k - 1) > 0
      BY <3>1
    <3> QED
      BY ONLY <3>1, <3>2, \A i \in m .. n - 1 : Calling!Depth(text, i) > 0
  <2>2. m \in 1 .. n
    BY <1>1
  <2> QED
    BY <1>4, <2>1, <2>2
<1>6. (CHOOSE k \in firsts : \A l \in firsts : l <= k) = m /\ firsts # {}
  <2>1. \A k \in firsts : (\A l \in firsts : l <= k) => k = m
    BY <1>1, <1>5
  <2> HIDE DEF firsts
  <2> QED
    BY ONLY <1>5, <2>1
<1> QED
  BY ONLY <1>3, <1>6 DEF Calling!extractJSON

LEMMA FirstFacts ==
    ASSUME NEW text \in Seq(Token), NEW m \in DOMAIN text, NEW n \in DOMAIN text, m < n,
           Calling!extractJSON(text) = SubSeq(text, m, n)
    PROVE  Calling!Parsed(text) = IF \A i \in m + 1 .. n - 1 : text[i] = "fact" THEN n - m - 1 ELSE -1
<1>1. PICK array : array = SubSeq(text, m, n)
  OBVIOUS
<1>2. m \in Nat /\ n \in Nat /\ 1 <= m /\ Len(array) = n - m + 1
  BY <1>1
<1>3. \A k \in 1 .. n - m + 1 : array[k] = text[m + k - 1]
  BY <1>1, <1>2
<1>4. (\A k \in 2 .. n - m : array[k] = "fact") <=> (\A i \in m + 1 .. n - 1 : text[i] = "fact")
  <2>1. ASSUME NEW k \in 2 .. n - m, \A i \in m + 1 .. n - 1 : text[i] = "fact"
        PROVE  array[k] = "fact"
    <3>1. m + k - 1 \in m + 1 .. n - 1 /\ k \in 1 .. n - m + 1
      BY <1>2
    <3> QED
      BY <1>3, <2>1, <3>1
  <2>2. ASSUME NEW i \in m + 1 .. n - 1, \A k \in 2 .. n - m : array[k] = "fact"
        PROVE  text[i] = "fact"
    <3>0. m \in Nat /\ n \in Nat /\ i \in m + 1 .. n - 1
      BY <1>2
    <3>1. i - m + 1 \in 2 .. n - m /\ i - m + 1 \in 1 .. n - m + 1 /\ m + (i - m + 1) - 1 = i
      BY ONLY <3>0
    <3>2. array[i - m + 1] = text[m + (i - m + 1) - 1]
      BY <1>3, <3>1
    <3>3. array[i - m + 1] = "fact"
      BY <2>2, <3>1
    <3> QED
      BY ONLY <3>1, <3>2, <3>3
  <2> QED
    BY <2>1, <2>2
<1>5. Len(array) - 1 = n - m /\ Len(array) - 2 = n - m - 1
  BY <1>2
<1> QED
  BY <1>1, <1>4, <1>5 DEF Calling!Parsed

\* A call on its way, one that is over, and a row of the log.
UnderWay ==
    [step : {"sent", "answered", "insert", "recorded"}, function : Function, prompt : Prompt,
     error : BOOLEAN, dup : BOOLEAN, lost : BOOLEAN, sent : Nat, seen : Nat]
Finished == {Calling!Idle, Calling!Answer(<<>>, 0)}
            \cup {Calling!Answer(t, Calling!Parsed(t)) : t \in Text}
LoggedCall ==
    [function : Function, prompt : Prompt, error : BOOLEAN, dup : BOOLEAN, at : Nat, sent : Nat,
     seen : Nat]

ClientTypeOK ==
    /\ calls \in [Proc -> UnderWay \cup Finished]
    /\ usage \in Seq(LoggedCall) /\ clock \in Nat

\* The m-th row of a log is a call equal to c, recorded within the window before a time.
Recent(rec, m, c, time) ==
    /\ rec[m].function = c.function /\ rec[m].prompt = c.prompt
    /\ rec[m].at >= time - DupWindow

HasRow(rec, c) ==
    c.lost \/ \E n \in c.seen + 1 .. Len(rec) :
      /\ rec[n].function = c.function /\ rec[n].prompt = c.prompt
      /\ rec[n].error = c.error /\ rec[n].sent = c.sent

\* The log only grows after a call was made; a call that is to be written is flagged for an
\* equal row, and is flagged if one that it has seen is equal and still recent.
CallInv(rec, time, c) ==
    c \in UnderWay =>
      /\ c.seen <= Len(rec) /\ c.sent <= time
      /\ c.step = "insert" =>
           /\ c.dup => \E m \in 1 .. Len(rec) : Recent(rec, m, c, c.sent)
           /\ \A m \in 1 .. c.seen : Recent(rec, m, c, time) => c.dup
      /\ c.step = "recorded" => HasRow(rec, c)

RowInv(rec, n) ==
    /\ rec[n].seen < n
    /\ rec[n].dup => \E m \in 1 .. n - 1 : Recent(rec, m, rec[n], rec[n].sent)
    /\ \A m \in 1 .. rec[n].seen : Recent(rec, m, rec[n], rec[n].at) => rec[n].dup

ClientInv ==
    /\ ClientTypeOK
    /\ \A p \in Proc : CallInv(usage, clock, calls[p])
    /\ \A n \in DOMAIN usage : RowInv(usage, n)

LEMMA FinishedIsOver == \A c \in Finished : c.step \in {"idle", "done"} /\ c \notin UnderWay
BY DEF Finished, Calling!Idle, Calling!Answer, UnderWay

LEMMA CallAt ==
    ASSUME ClientTypeOK, NEW p \in Proc
    PROVE  /\ calls[p] \in UnderWay \cup Finished
           /\ calls[p].step \in {"sent", "answered", "insert", "recorded"} => calls[p] \in UnderWay
BY FinishedIsOver DEF ClientTypeOK

\* A process goes on with its call, and the log is as it was.
LEMMA CallGoes ==
    ASSUME ClientInv, NEW p \in Proc, NEW c \in UnderWay \cup Finished, CallInv(usage, clock, c),
           calls' = [calls EXCEPT ![p] = c], usage' = usage, clock' = clock
    PROVE  ClientInv'
<1>1. ClientTypeOK' /\ \A q \in Proc : calls'[q] = IF q = p THEN c ELSE calls[q]
  BY DEF ClientInv, ClientTypeOK
<1>2. \A q \in Proc : CallInv(usage, clock, calls'[q])
  BY <1>1 DEF ClientInv
<1>3. \A n \in DOMAIN usage : RowInv(usage, n)
  BY DEF ClientInv
<1> QED
  BY <1>1, <1>2, <1>3 DEF ClientInv

LEMMA StillRecent ==
    ASSUME NEW at \in Nat, NEW time \in Nat, at >= (time + 1) - DupWindow
    PROVE  at >= time - DupWindow
BY TextAndWindow

LEMMA CallLater ==
    ASSUME NEW rec \in Seq(LoggedCall), NEW time \in Nat, NEW c, CallInv(rec, time, c)
    PROVE  CallInv(rec, time + 1, c)
<1> SUFFICES ASSUME c \in UnderWay
             PROVE  CallInv(rec, time + 1, c)
  BY DEF CallInv
<1>1. c.sent \in Nat /\ c.seen \in Nat /\ c.sent <= time /\ c.seen <= Len(rec)
  BY DEF CallInv, UnderWay
<1>2. c.sent <= time + 1
  BY <1>1
<1>3. ASSUME NEW m \in 1 .. c.seen, Recent(rec, m, c, time + 1)
      PROVE  Recent(rec, m, c, time)
  <2>1. m \in 1 .. Len(rec)
    BY <1>1
  <2>2. rec[m] \in LoggedCall
    BY <2>1
  <2>3. rec[m].at \in Nat
    BY <2>2 DEF LoggedCall
  <2>4. rec[m].at >= time - DupWindow
    BY <1>3, <2>3, StillRecent DEF Recent
  <2> QED
    BY <1>3, <2>4 DEF Recent
<1>4. c.step = "insert" => \A m \in 1 .. c.seen : Recent(rec, m, c, time + 1) => c.dup
  BY <1>3 DEF CallInv
<1> QED
  BY <1>1, <1>2, <1>4 DEF CallInv

LEMMA ClientUnchanged ==
    ASSUME ClientInv, UNCHANGED <<calls, usage, clock>>
    PROVE  ClientInv'
BY DEF ClientInv, ClientTypeOK

LEMMA TickKeeps ==
    ASSUME ClientInv, Calling!Tick
    PROVE  ClientInv'
<1>1. clock \in Nat /\ clock' = clock + 1 /\ clock' \in Nat /\ calls' = calls /\ usage' = usage
  BY DEF ClientInv, ClientTypeOK, Calling!Tick
<1>2. \A p \in Proc : CallInv(usage, clock + 1, calls[p])
  BY <1>1, CallLater DEF ClientInv, ClientTypeOK
<1> QED
  BY <1>1, <1>2 DEF ClientInv, ClientTypeOK

\* A row is added: what was known of the log stays known.
LEMMA RowAdded ==
    ASSUME NEW rec \in Seq(LoggedCall), NEW row \in LoggedCall, NEW more, more = Append(rec, row)
    PROVE  /\ more \in Seq(LoggedCall) /\ Len(more) = Len(rec) + 1 /\ Len(rec) \in Nat
           /\ DOMAIN rec = 1 .. Len(rec) /\ DOMAIN more = 1 .. Len(rec) + 1
           /\ more[Len(rec) + 1] = row /\ \A m \in 1 .. Len(rec) : more[m] = rec[m]
OBVIOUS

LEMMA CallStays ==
    ASSUME NEW rec \in Seq(LoggedCall), NEW row \in LoggedCall, NEW time \in Nat, NEW c,
           CallInv(rec, time, c)
    PROVE  CallInv(Append(rec, row), time, c)
<1> SUFFICES ASSUME c \in UnderWay
             PROVE  CallInv(Append(rec, row), time, c)
  BY DEF CallInv
<1>1. PICK more : more = Append(rec, row)
  OBVIOUS
<1>2. /\ Len(more) = Len(rec) + 1 /\ Len(rec) \in Nat
      /\ \A m \in 1 .. Len(rec) : more[m] = rec[m]
  BY <1>1, RowAdded
<1>3. c.seen \in Nat /\ c.seen <= Len(rec) /\ c.sent <= time
  BY DEF CallInv, UnderWay
<1>4. /\ c.seen <= Len(more) /\ \A m \in 1 .. Len(rec) : m \in 1 .. Len(more)
      /\ \A m \in 1 .. c.seen : m \in 1 .. Len(rec)
      /\ \A m \in c.seen + 1 .. Len(rec) : m \in 1 .. Len(rec) /\ m \in c.seen + 1 .. Len(more)
  BY <1>2, <1>3
<1>5. \A m \in 1 .. Len(rec) : \A t : Recent(more, m, c, t) <=> Recent(rec, m, c, t)
  BY <1>2 DEF Recent
<1>6. HasRow(rec, c) => HasRow(more, c)
  BY <1>2, <1>4 DEF HasRow
<1>7. c.step = "insert" =>
        /\ c.dup => \E m \in 1 .. Len(more) : Recent(more, m, c, c.sent)
        /\ \A m \in 1 .. c.seen : Recent(more, m, c, time) => c.dup
  BY <1>4, <1>5 DEF CallInv
<1> QED
  BY <1>1, <1>3, <1>4, <1>6, <1>7 DEF CallInv

LEMMA RowStays ==
    ASSUME NEW rec \in Seq(LoggedCall), NEW row \in LoggedCall, NEW n \in DOMAIN rec,
           RowInv(rec, n)
    PROVE  RowInv(Append(rec, row), n)
<1>1. PICK more : more = Append(rec, row)
  OBVIOUS
<1>2. /\ Len(rec) \in Nat /\ n \in 1 .. Len(rec) /\ more[n] = rec[n]
      /\ \A m \in 1 .. Len(rec) : more[m] = rec[m]
  BY <1>1, RowAdded
<1>3. PICK r \in LoggedCall : r = rec[n]
  BY <1>2
<1>4. r.seen \in Nat /\ r.seen < n
  BY <1>3 DEF LoggedCall, RowInv
<1>5. /\ \A m \in 1 .. n - 1 : m \in 1 .. Len(rec)
      /\ \A m \in 1 .. r.seen : m \in 1 .. Len(rec)
  BY <1>2, <1>4
<1>6. \A m \in 1 .. Len(rec) : \A t : Recent(more, m, r, t) <=> Recent(rec, m, r, t)
  BY <1>2 DEF Recent
<1>7. /\ r.dup => \E m \in 1 .. n - 1 : Recent(more, m, r, r.sent)
      /\ \A m \in 1 .. r.seen : Recent(more, m, r, r.at) => r.dup
  BY <1>3, <1>5, <1>6 DEF RowInv
<1> QED
  BY <1>1, <1>2, <1>3, <1>4, <1>7 DEF RowInv

\* A call writes what it found out.
LEMMA RowOfCall ==
    ASSUME NEW rec \in Seq(LoggedCall), NEW time \in Nat, NEW c \in UnderWay, c.step = "insert",
           CallInv(rec, time, c),
           NEW row \in LoggedCall,
           /\ row.function = c.function /\ row.prompt = c.prompt /\ row.dup = c.dup
           /\ row.error = c.error /\ row.at = time /\ row.sent = c.sent /\ row.seen = c.seen
    PROVE  /\ RowInv(Append(rec, row), Len(rec) + 1)
           /\ HasRow(Append(rec, row), c)
<1>1. PICK more : more = Append(rec, row)
  OBVIOUS
<1>2. /\ Len(more) = Len(rec) + 1 /\ Len(rec) \in Nat /\ more[Len(rec) + 1] = row
      /\ \A m \in 1 .. Len(rec) : more[m] = rec[m]
  BY <1>1, RowAdded
<1>3. PICK n \in Nat : n = Len(rec) + 1
  BY <1>2
<1>4. c.seen \in Nat /\ c.seen <= Len(rec)
  BY DEF CallInv, UnderWay
<1>5. /\ c.seen < n /\ n \in c.seen + 1 .. Len(more)
      /\ \A m \in 1 .. Len(rec) : m \in 1 .. n - 1
      /\ \A m \in 1 .. c.seen : m \in 1 .. Len(rec)
  BY <1>2, <1>3, <1>4
<1>6. \A m \in 1 .. Len(rec) : \A t : Recent(more, m, row, t) <=> Recent(rec, m, c, t)
  BY <1>2 DEF Recent
<1>7. /\ row.dup => \E m \in 1 .. n - 1 : Recent(more, m, row, row.sent)
      /\ \A m \in 1 .. row.seen : Recent(more, m, row, row.at) => row.dup
  BY <1>5, <1>6 DEF CallInv
<1>8. RowInv(more, n)
  BY <1>2, <1>3, <1>5, <1>7 DEF RowInv
<1>9. HasRow(more, c)
  BY <1>2, <1>3, <1>5 DEF HasRow
<1> QED
  BY <1>1, <1>3, <1>8, <1>9

LEMMA InsertKeeps ==
    ASSUME ClientInv, NEW p \in Proc, calls[p].step = "insert",
           usage' = Calling!Inserted(calls[p]), Calling!Go(p, "recorded"), clock' = clock
    PROVE  ClientInv'
<1>0. usage \in Seq(LoggedCall) /\ clock \in Nat
  BY DEF ClientInv, ClientTypeOK
<1>1. PICK c \in UnderWay : c = calls[p] /\ CallInv(usage, clock, c) /\ c.step = "insert"
  BY CallAt DEF ClientInv
<1>2. /\ c.function \in Function /\ c.prompt \in Prompt /\ c.error \in BOOLEAN /\ c.dup \in BOOLEAN
      /\ c.sent \in Nat /\ c.seen \in Nat
  BY <1>1 DEF UnderWay
<1>3. PICK row : row = Calling!Row(c)
  OBVIOUS
<1>4. /\ row \in LoggedCall
      /\ row.function = c.function /\ row.prompt = c.prompt /\ row.dup = c.dup
      /\ row.error = c.error /\ row.at = clock /\ row.sent = c.sent /\ row.seen = c.seen
  BY <1>0, <1>2, <1>3 DEF Calling!Row, LoggedCall
<1>5. usage' = Append(usage, row)
  BY <1>1, <1>3 DEF Calling!Inserted
<1>6. usage' \in Seq(LoggedCall) /\ \A n \in DOMAIN usage' : n \in DOMAIN usage \/ n = Len(usage) + 1
  BY <1>0, <1>4, <1>5, RowAdded
<1>7. PICK d : d = [c EXCEPT !.step = "recorded"]
  OBVIOUS
<1>8. /\ d \in UnderWay /\ d.step = "recorded" /\ d.seen = c.seen /\ d.sent = c.sent
      /\ d.function = c.function /\ d.prompt = c.prompt /\ d.error = c.error /\ d.lost = c.lost
  BY <1>7 DEF UnderWay
<1>9. /\ calls' \in [Proc -> UnderWay \cup Finished]
      /\ \A q \in Proc : calls'[q] = IF q = p THEN d ELSE calls[q]
  BY <1>1, <1>7, <1>8 DEF Calling!Go, Calling!Step, ClientInv, ClientTypeOK
<1>10. RowInv(usage', Len(usage) + 1) /\ HasRow(usage', c)
  BY <1>0, <1>1, <1>4, <1>5, RowOfCall
<1>11. \A e : CallInv(usage, clock, e) => CallInv(usage', clock, e)
  BY <1>0, <1>4, <1>5, CallStays
<1>12. CallInv(usage', clock, d)
  <2>1. c.seen <= Len(usage') /\ c.sent <= clock
    BY <1>1, <1>11 DEF CallInv
  <2>2. HasRow(usage', d)
    BY <1>8, <1>10 DEF HasRow
  <2> QED
    BY <1>8, <2>1, <2>2 DEF CallInv
<1>13. \A q \in Proc : CallInv(usage', clock, calls'[q])
  BY <1>9, <1>11, <1>12 DEF ClientInv
<1>14. \A n \in DOMAIN usage : RowInv(usage', n)
  BY <1>0, <1>4, <1>5, RowStays DEF ClientInv
<1>15. \A n \in DOMAIN usage' : RowInv(usage', n)
  BY <1>6, <1>10, <1>14
<1> QED
  BY <1>0, <1>6, <1>9, <1>13, <1>15 DEF ClientInv, ClientTypeOK

\* What a call does before it is written, and what follows it.
LEMMA CallStep ==
    ASSUME ClientInv, NEW p \in Proc,
           \/ \E f \in Function, prompt \in Prompt : Calling!Send(p, f, prompt)
           \/ Calling!Receive(p) \/ Calling!CheckDuplicate(p)
    PROVE  ClientInv'
<1>1. usage \in Seq(LoggedCall) /\ Len(usage) \in Nat /\ clock \in Nat /\ ClientTypeOK
  BY DEF ClientInv, ClientTypeOK
<1>2. usage' = usage /\ clock' = clock
  BY DEF Calling!Send, Calling!Receive, Calling!CheckDuplicate
<1>3. ASSUME NEW f \in Function, NEW prompt \in Prompt, Calling!Send(p, f, prompt)
      PROVE  ClientInv'
  <2>1. PICK c : c = [step |-> "sent", function |-> f, prompt |-> prompt, error |-> FALSE,
                      dup |-> FALSE, lost |-> FALSE, sent |-> clock, seen |-> Len(usage)]
    OBVIOUS
  <2>2. c \in UnderWay /\ c.step = "sent" /\ c.sent = clock /\ c.seen = Len(usage)
    BY <1>1, <2>1 DEF UnderWay
  <2>3. CallInv(usage, clock, c)
    BY <1>1, <2>2 DEF CallInv
  <2>4. calls' = [calls EXCEPT ![p] = c]
    BY <1>3, <2>1 DEF Calling!Send, Calling!Step
  <2> QED
    BY <1>2, <2>2, <2>3, <2>4, CallGoes
<1>4. ASSUME Calling!Receive(p) \/ Calling!CheckDuplicate(p)
      PROVE  ClientInv'
  <2>1. PICK c \in UnderWay : c = calls[p] /\ CallInv(usage, clock, c)
    BY <1>1, <1>4, CallAt DEF Calling!Receive, Calling!CheckDuplicate, ClientInv
  <2>2. c.sent \in Nat /\ c.seen \in Nat /\ c.seen <= Len(usage) /\ c.sent <= clock
    BY <2>1 DEF CallInv, UnderWay
  <2>3. CASE Calling!Receive(p)
    <3>1. PICK refused \in BOOLEAN :
            calls' = [calls EXCEPT ![p] =
                        IF refused THEN [c EXCEPT !.step = "answered", !.error = TRUE]
                        ELSE [c EXCEPT !.step = "answered"]]
      BY <2>1, <2>3 DEF Calling!Receive, Calling!Go, Calling!Step
    <3>2. PICK d : d = IF refused THEN [c EXCEPT !.step = "answered", !.error = TRUE]
                       ELSE [c EXCEPT !.step = "answered"]
      OBVIOUS
    <3>3. d \in UnderWay /\ d.step = "answered" /\ d.sent = c.sent /\ d.seen = c.seen
      BY <3>2 DEF UnderWay
    <3>4. CallInv(usage, clock, d)
      BY <2>2, <3>3 DEF CallInv
    <3> QED
      BY <1>2, <3>1, <3>2, <3>3, <3>4, CallGoes
  <2>4. CASE Calling!CheckDuplicate(p) /\ db[p] = "failed"
    <3>1. PICK d : d = [c EXCEPT !.step = "recorded", !.lost = TRUE]
      OBVIOUS
    <3>2. /\ d \in UnderWay /\ d.step = "recorded" /\ d.sent = c.sent /\ d.seen = c.seen /\ d.lost
      BY <3>1 DEF UnderWay
    <3>3. calls' = [calls EXCEPT ![p] = d]
      BY <2>1, <2>4, <3>1 DEF Calling!CheckDuplicate, Calling!Step
    <3>4. CallInv(usage, clock, d)
      BY <2>2, <3>2 DEF CallInv, HasRow
    <3> QED
      BY <1>2, <3>2, <3>3, <3>4, CallGoes
  <2>5. CASE Calling!CheckDuplicate(p) /\ db[p] # "failed"
    <3>1. PICK dup \in BOOLEAN : dup = Calling!isDuplicate(c)
      BY DEF Calling!isDuplicate
    <3>2. PICK d : d = [c EXCEPT !.step = "insert", !.dup = dup]
      OBVIOUS
    <3>3. /\ d \in UnderWay /\ d.step = "insert" /\ d.sent = c.sent /\ d.seen = c.seen
          /\ d.dup = dup /\ d.function = c.function /\ d.prompt = c.prompt
      BY <3>2 DEF UnderWay
    <3>4. calls' = [calls EXCEPT ![p] = d]
      BY <2>1, <2>5, <3>1, <3>2 DEF Calling!CheckDuplicate, Calling!Step
    <3>5. dup <=> \E m \in 1 .. Len(usage) : Recent(usage, m, d, clock)
      <4>1. DOMAIN usage = 1 .. Len(usage)
        BY <1>1
      <4>2. \A m : Calling!Context(usage[m]) = Calling!Context(c) <=>
                     usage[m].function = d.function /\ usage[m].prompt = d.prompt
        BY <3>3 DEF Calling!Context
      <4> QED
        BY <3>1, <4>1, <4>2 DEF Calling!isDuplicate, Recent
    <3>6. ASSUME NEW m \in 1 .. Len(usage), Recent(usage, m, d, clock)
          PROVE  Recent(usage, m, d, d.sent)
      <4>1. usage[m] \in LoggedCall
        BY <1>1
      <4>2. usage[m].at \in Nat
        BY <4>1 DEF LoggedCall
      <4>3. usage[m].at >= c.sent - DupWindow
        BY <1>1, <2>2, <3>6, <4>2, TextAndWindow DEF Recent
      <4> QED
        BY <3>3, <3>6, <4>3 DEF Recent
    <3>7. \A m \in 1 .. d.seen : m \in 1 .. Len(usage)
      BY <1>1, <2>2, <3>3
    <3>8. CallInv(usage, clock, d)
      BY <2>2, <3>3, <3>5, <3>6, <3>7 DEF CallInv
    <3> QED
      BY <1>2, <3>3, <3>4, <3>8, CallGoes
  <2> QED
    BY <1>4, <2>3, <2>4, <2>5
<1> QED
  BY <1>3, <1>4

LEMMA ClientKeeps ==
    ASSUME ClientInv, Calling!ClientNext
    PROVE  ClientInv'
<1>1. ASSUME NEW p \in Proc, Calling!Return(p) \/ Calling!Done(p) \/ Calling!Kill(p)
      PROVE  ClientInv'
  <2>1. usage' = usage /\ clock' = clock
    BY <1>1 DEF Calling!Return, Calling!Done, Calling!Kill
  <2>2. PICK c \in Finished : calls' = [calls EXCEPT ![p] = c]
    BY <1>1 DEF Calling!Return, Calling!Done, Calling!Kill, Calling!Step, Finished
  <2>3. CallInv(usage, clock, c)
    BY FinishedIsOver DEF CallInv
  <2> QED
    BY <2>1, <2>2, <2>3, CallGoes
<1>2. ASSUME NEW p \in Proc, Calling!InsertUsage(p)
      PROVE  ClientInv'
  <2>1. CASE usage' = Calling!Inserted(calls[p]) /\ Calling!Go(p, "recorded")
    BY <1>2, <2>1, InsertKeeps DEF Calling!InsertUsage
  <2>2. CASE Calling!Step(p, [calls[p] EXCEPT !.step = "recorded", !.lost = TRUE]) /\ usage' = usage
    <3>1. PICK c \in UnderWay : c = calls[p] /\ CallInv(usage, clock, c)
      BY <1>2, CallAt DEF Calling!InsertUsage, ClientInv
    <3>2. PICK d : d = [c EXCEPT !.step = "recorded", !.lost = TRUE]
      OBVIOUS
    <3>3. d \in UnderWay /\ d.step = "recorded" /\ d.sent = c.sent /\ d.seen = c.seen /\ d.lost
      BY <3>2 DEF UnderWay
    <3>4. CallInv(usage, clock, d)
      BY <3>1, <3>3 DEF CallInv, HasRow
    <3>5. calls' = [calls EXCEPT ![p] = d] /\ clock' = clock
      BY <1>2, <2>2, <3>1, <3>2 DEF Calling!Step, Calling!InsertUsage
    <3> QED
      BY <2>2, <3>3, <3>4, <3>5, CallGoes
  <2> QED
    BY <1>2, <2>1, <2>2 DEF Calling!InsertUsage
<1>3. ASSUME NEW p \in Proc, Calling!OpenUsageDB(p)
      PROVE  ClientInv'
  BY <1>3, ClientUnchanged DEF Calling!OpenUsageDB
<1> QED
  BY <1>1, <1>2, <1>3, CallStep, TickKeeps DEF Calling!ClientNext

LEMMA ClientBegins == Calling!ClientInit => ClientInv
<1> SUFFICES ASSUME Calling!ClientInit
             PROVE  ClientInv
  OBVIOUS
<1>1. calls = [p \in Proc |-> Calling!Idle] /\ usage = <<>> /\ clock = 0
  BY DEF Calling!ClientInit
<1>2. Calling!Idle \in Finished
  BY DEF Finished
<1>3. usage \in Seq(LoggedCall) /\ DOMAIN usage = {}
  BY ONLY <1>1, EmptySeq
<1>4. ClientTypeOK
  BY <1>1, <1>2, <1>3 DEF ClientTypeOK
<1> QED
  BY <1>1, <1>2, <1>3, <1>4, FinishedIsOver DEF ClientInv, CallInv

LEMMA ClientTells ==
    ASSUME ClientInv
    PROVE  Calling!UsageIsTrue /\ Calling!FirstArrayTaken
<1>1. Calling!UsageIsTrue
  <2>1. ASSUME NEW p \in Proc, calls[p].step = "recorded"
        PROVE  HasRow(usage, calls[p])
    BY <2>1, CallAt DEF ClientInv, CallInv
  <2>2. \A n \in DOMAIN usage : RowInv(usage, n)
    BY DEF ClientInv
  <2> QED
    BY <2>1, <2>2 DEF Calling!UsageIsTrue, HasRow, RowInv, Recent
<1>2. Calling!FirstArrayTaken
  <2>1. ASSUME NEW p \in Proc, calls[p].step = "done", calls[p].text # <<>>
        PROVE  \E t \in Seq(Token) : calls[p].text = t /\ calls[p].facts = Calling!Parsed(t)
    <3>1. calls[p] \in UnderWay \cup Finished
      BY CallAt DEF ClientInv
    <3>2. calls[p] \in Finished
      BY <2>1, <3>1 DEF UnderWay
    <3>3. \E t \in Text : calls[p] = Calling!Answer(t, Calling!Parsed(t))
      BY <2>1, <3>2 DEF Finished, Calling!Idle, Calling!Answer
    <3> QED
      BY <3>3, TextAndWindow DEF Calling!Answer
  <2> SUFFICES ASSUME NEW p \in Proc, calls[p].step = "done", calls[p].text # <<>>,
                      NEW m \in DOMAIN calls[p].text, NEW n \in DOMAIN calls[p].text,
                      \A i \in 1 .. m - 1 : calls[p].text[i] \in {"fact", "string"},
                      calls[p].text[m] = "open", calls[p].text[n] = "close", m < n,
                      Calling!Depth(calls[p].text, n) = 0,
                      \A i \in m .. n - 1 : Calling!Depth(calls[p].text, i) > 0
               PROVE  calls[p].facts = IF \A i \in m + 1 .. n - 1 : calls[p].text[i] = "fact"
                                       THEN n - m - 1 ELSE -1
    BY DEF Calling!FirstArrayTaken
  <2>2. PICK t \in Seq(Token) : calls[p].text = t /\ calls[p].facts = Calling!Parsed(t)
    BY <2>1
  <2>3. Calling!extractJSON(t) = SubSeq(t, m, n)
    BY <2>2, FirstArray
  <2> QED
    BY <2>2, <2>3, FirstFacts
<1> QED
  BY <1>1, <1>2

-----------------------------------------------------------------------------
(* EventStream *)

Event == [n : Nat, running : BOOLEAN]
Connection ==
    [step : {"away", "connected", "streaming"}, queue : Seq(Event), seen : Nat,
     told : BOOLEAN, full : BOOLEAN, since : Nat]

TaskSteps == {"idle", "started", "processors", "processing", "ended"}

StreamTypeOK ==
    /\ running \in BOOLEAN /\ failed \in BOOLEAN /\ emitted \in Nat
    /\ runner \in [step : TaskSteps, left : Int, runs : Nat]
    /\ viewer \in [Viewer -> Connection]

\* A channel is among the tracker's exactly while its connection reads it.
ChannelsOpen == subs = {v \in Viewer : viewer[v].step = "streaming"}

\* What a connection has written and what waits for it are the events up to the last, in order.
InStep(s, n) ==
    /\ s.seen + Len(s.queue) = n
    /\ \A k \in DOMAIN s.queue : s.queue[k].n = s.seen + k

\* What the page will take the status for, once all that waits is written.
WillBeTold(s) == IF Len(s.queue) = 0 THEN s.told ELSE s.queue[Len(s.queue)].running

\* A run that has ended told so in its last event, to all that were there when it began.
EndIsTold(s) == Watching!At("idle") /\ ~failed /\ s.since < runner.runs => ~WillBeTold(s)

StreamInv ==
    /\ StreamTypeOK /\ ChannelsOpen
    /\ \A v \in Viewer : viewer[v].step # "streaming" => viewer[v].queue = <<>>
    /\ sentTo = {}
    /\ Watching!At("ended") => ~running
    /\ \A v \in subs : ~viewer[v].full => InStep(viewer[v], emitted) /\ EndIsTold(viewer[v])

LEMMA ReceivedIsNext ==
    ASSUME NEW s \in Connection, NEW event \in Event
    PROVE  /\ Watching!Received(s, event) \in Connection
           /\ Watching!Received(s, event).step = s.step /\ Watching!Received(s, event).since = s.since
           /\ ~Watching!Received(s, event).full =>
                /\ ~s.full /\ WillBeTold(Watching!Received(s, event)) = event.running
                /\ \A n \in Nat : InStep(s, n) /\ event.n = n + 1 =>
                     InStep(Watching!Received(s, event), n + 1)
<1>1. CASE Len(s.queue) < Slots
  <2> DEFINE q == Append(s.queue, event)
  <2>1. Watching!Received(s, event) = [s EXCEPT !.queue = q]
    BY <1>1 DEF Watching!Received
  <2>2. /\ q \in Seq(Event) /\ Len(q) = Len(s.queue) + 1 /\ Len(q) # 0
        /\ q[Len(q)] = event /\ \A k \in DOMAIN s.queue : q[k] = s.queue[k]
    BY DEF Connection
  <2>3. DOMAIN q = 1 .. Len(s.queue) + 1 /\ DOMAIN s.queue = 1 .. Len(s.queue)
    BY <2>2 DEF Connection
  <2> HIDE DEF q
  <2> DEFINE r == [s EXCEPT !.queue = q]
  <2>4. r \in Connection
    BY <2>2 DEF Connection
  <2>5. /\ r.queue = q /\ r.seen = s.seen /\ r.full = s.full
        /\ r.step = s.step /\ r.since = s.since
    BY DEF Connection
  <2>7. r = Watching!Received(s, event)
    BY <2>1
  <2> HIDE DEF r
  <2>8. WillBeTold(r) = event.running
    BY <2>2, <2>5 DEF WillBeTold
  <2>6. ASSUME NEW n \in Nat, InStep(s, n), event.n = n + 1
        PROVE  InStep(r, n + 1)
    <3>1. s.seen \in Nat /\ Len(s.queue) \in Nat
      BY DEF Connection
    <3>2. ASSUME NEW k \in DOMAIN q  PROVE q[k].n = s.seen + k
      <4>1. CASE k \in DOMAIN s.queue
        BY <4>1, <2>2, <2>6 DEF InStep
      <4>2. CASE k = Len(s.queue) + 1
        BY <4>2, <2>2, <2>6, <3>1 DEF InStep
      <4> QED
        BY <4>1, <4>2, <2>3, <3>1
    <3> QED
      BY <2>2, <2>5, <2>6, <3>1, <3>2 DEF InStep
  <2> QED
    BY <2>4, <2>5, <2>6, <2>7, <2>8
<1>2. CASE ~(Len(s.queue) < Slots)
  BY <1>2 DEF Watching!Received, Connection
<1> QED
  BY <1>1, <1>2

\* An event is written: the next one is first now, and the last one stays.
HeadWritten(s) ==
    [s EXCEPT !.queue = Tail(s.queue), !.seen = Head(s.queue).n, !.told = Head(s.queue).running]

LEMMA WrittenIsNext ==
    ASSUME NEW s \in Connection, s.queue # <<>>
    PROVE  /\ HeadWritten(s) \in Connection
           /\ HeadWritten(s).step = s.step /\ HeadWritten(s).since = s.since
           /\ HeadWritten(s).full = s.full
           /\ WillBeTold(HeadWritten(s)) = WillBeTold(s)
           /\ \A n \in Nat : InStep(s, n) => InStep(HeadWritten(s), n)
<1> DEFINE q == s.queue
           t == Tail(s.queue)
           w == HeadWritten(s)
<1>1. /\ q \in Seq(Event) /\ Len(q) \in Nat /\ Len(q) # 0 /\ Head(q) = q[1] /\ q[1] \in Event
      /\ DOMAIN q = 1 .. Len(q)
  BY DEF Connection
<1>2. /\ t \in Seq(Event) /\ Len(t) = Len(q) - 1 /\ DOMAIN t = 1 .. Len(q) - 1
      /\ \A k \in 1 .. Len(q) - 1 : t[k] = q[k + 1]
  BY <1>1
<1>3. s.seen \in Nat
  BY DEF Connection
<1>4. /\ w \in Connection /\ w.queue = t /\ w.seen = q[1].n /\ w.told = q[1].running
      /\ w.step = s.step /\ w.full = s.full /\ w.since = s.since
  BY <1>1, <1>2 DEF HeadWritten, Connection, Event
<1> HIDE DEF w
<1>5. WillBeTold(w) = WillBeTold(s)
  <2>1. PICK l \in Nat : l = Len(q)
    BY <1>1
  <2>2. l # 0 /\ Len(t) = l - 1
    BY <2>1, <1>1, <1>2
  <2>3. CASE l = 1
    BY <2>1, <2>2, <2>3, <1>1, <1>4 DEF WillBeTold
  <2>4. CASE l # 1
    <3>1. l - 1 \in 1 .. l - 1 /\ (l - 1) + 1 = l
      BY <2>2, <2>4
    <3>2. t[l - 1] = q[l]
      BY <2>1, <3>1, <1>2
    <3> QED
      BY <2>1, <2>2, <3>1, <3>2, <1>4 DEF WillBeTold
  <2> QED
    BY <2>3, <2>4
<1>6. ASSUME NEW n \in Nat, InStep(s, n)  PROVE InStep(w, n)
  <2>1. q[1].n = s.seen + 1
    BY <1>6, <1>1 DEF InStep
  <2>2. w.seen + Len(w.queue) = n
    BY <1>6, <2>1, <1>1, <1>2, <1>3, <1>4 DEF InStep
  <2>3. ASSUME NEW k \in 1 .. Len(q) - 1  PROVE t[k].n = w.seen + k
    <3>1. q[k + 1].n = s.seen + (k + 1)
      BY <1>6, <1>1 DEF InStep
    <3> QED
      BY <3>1, <2>1, <1>2, <1>3, <1>4
  <2> QED
    BY <2>2, <2>3, <1>2, <1>4 DEF InStep
<1> QED
  BY <1>4, <1>5, <1>6 DEF w

LEMMA InitStream == Processors \in Nat /\ Watching!StreamInit => StreamInv
<1> SUFFICES ASSUME Watching!StreamInit  PROVE StreamInv
  OBVIOUS
<1>1. Watching!Away \in Connection /\ Watching!Away.step = "away" /\ Watching!Away.queue = <<>>
  BY DEF Watching!Away, Connection
<1>2. StreamTypeOK
  <2>1. running \in BOOLEAN /\ failed \in BOOLEAN
    BY Zenon DEF Watching!StreamInit
  <2>2. runner \in [step : TaskSteps, left : Int, runs : Nat] /\ emitted \in Nat
    BY DEF Watching!StreamInit, TaskSteps
  <2>3. viewer \in [Viewer -> Connection]
    BY <1>1 DEF Watching!StreamInit
  <2> QED
    BY <2>1, <2>2, <2>3 DEF StreamTypeOK
<1>3. subs = {} /\ sentTo = {} /\ \A v \in Viewer : viewer[v] = Watching!Away
  BY DEF Watching!StreamInit
<1>4. ~Watching!At("ended")
  BY DEF Watching!StreamInit, Watching!At
<1> QED
  BY <1>1, <1>2, <1>3, <1>4 DEF StreamInv, ChannelsOpen

LEMMA EmitTypes ==
    ASSUME StreamTypeOK, Watching!Emit
    PROVE  running' \in BOOLEAN /\ emitted' \in Nat /\ viewer' \in [Viewer -> Connection]
<1> DEFINE event == [n |-> emitted + 1, running |-> running]
<1>1. event \in Event
  BY DEF StreamTypeOK, Event
<1>2. \A v \in Viewer : Watching!Received(viewer[v], event) \in Connection /\ viewer[v] \in Connection
  BY <1>1, ReceivedIsNext DEF StreamTypeOK
<1>3. viewer' = [v \in Viewer |-> IF v \in subs THEN Watching!Received(viewer[v], event) ELSE viewer[v]]
  BY DEF Watching!Emit
<1>4. running' = running /\ emitted' = emitted + 1
  BY DEF Watching!Emit
<1> HIDE DEF event
<1> QED
  BY <1>2, <1>3, <1>4 DEF StreamTypeOK

LEMMA TaskTypes ==
    ASSUME StreamTypeOK, Processors \in Nat, Watching!TaskStep
    PROVE  StreamTypeOK'
<1> USE DEF StreamTypeOK, TaskSteps, Watching!Go
<1>4. runner' \in [step : TaskSteps, left : Int, runs : Nat]
  <2>1. CASE Watching!StartRun
    BY <2>1 DEF Watching!StartRun
  <2>2. CASE Watching!EmitStarted
    BY <2>2 DEF Watching!EmitStarted
  <2>3. CASE Watching!PassOver
    BY <2>3 DEF Watching!PassOver
  <2>5. ASSUME runner' = [runner EXCEPT !.step = "processors", !.left = @ - 1]
        PROVE  runner' = [step |-> "processors", left |-> runner.left - 1, runs |-> runner.runs]
    BY <2>5
  <2>6. CASE Watching!AnnounceResults
    BY <2>5, <2>6 DEF Watching!AnnounceResults
  <2>7. CASE Watching!Announce
    <3>1. CASE Watching!Go("processing")
      BY <3>1
    <3>2. CASE runner' = [runner EXCEPT !.step = "processors", !.left = @ - 1]
      BY <3>2, <2>5
    <3> QED
      BY <3>1, <3>2, <2>7 DEF Watching!Announce
  <2>4. CASE Watching!FailRun \/ Watching!EndRun \/ Watching!EmitDone
    BY <2>4 DEF Watching!FailRun, Watching!EndRun, Watching!EmitDone
  <2> QED
    BY <2>1, <2>2, <2>3, <2>4, <2>6, <2>7 DEF Watching!TaskStep
<1>5. failed' \in BOOLEAN
  BY Zenon DEF Watching!TaskStep, Watching!StartRun, Watching!EmitStarted, Watching!Announce,
               Watching!AnnounceResults, Watching!PassOver, Watching!FailRun,
               Watching!EndRun, Watching!EmitDone
<1>6. Watching!ViewersUnchanged => running' \in BOOLEAN /\ emitted' = emitted /\ viewer' = viewer
  BY Zenon DEF Watching!TaskStep, Watching!StartRun, Watching!EmitStarted, Watching!Announce,
               Watching!AnnounceResults, Watching!PassOver, Watching!FailRun,
               Watching!EndRun, Watching!EmitDone, Watching!ViewersUnchanged, Watching!Emit,
               Watching!StatusAtEnd
<1>1. CASE Watching!Emit /\ Watching!TaskStep
  BY <1>1, <1>4, <1>5, EmitTypes
<1>2. CASE Watching!ViewersUnchanged /\ Watching!TaskStep
  BY <1>2, <1>4, <1>5, <1>6
<1>3. Watching!Emit \/ Watching!ViewersUnchanged
  BY DEF Watching!TaskStep, Watching!StartRun, Watching!EmitStarted, Watching!Announce,
         Watching!AnnounceResults, Watching!PassOver, Watching!FailRun,
         Watching!EndRun, Watching!EmitDone
<1> QED
  BY <1>1, <1>2, <1>3

\* An emission reaches every channel, and tells the status of the moment.
LEMMA EmitKeeps ==
    ASSUME StreamInv, Watching!Emit, StreamTypeOK',
           runner'.step = "idle" => ~running,
           runner'.step # "ended"
    PROVE  StreamInv'
<1> DEFINE event == [n |-> emitted + 1, running |-> running]
<1>1. event \in Event
  BY DEF StreamInv, StreamTypeOK, Event
<1>2. /\ emitted' = emitted + 1 /\ subs' = subs /\ running' = running
      /\ \A v \in Viewer : viewer'[v] =
           IF v \in subs THEN Watching!Received(viewer[v], event) ELSE viewer[v]
  BY DEF Watching!Emit
<1> HIDE DEF event
<1>3. \A v \in Viewer : viewer[v] \in Connection /\ viewer'[v] \in Connection
  BY DEF StreamInv, StreamTypeOK
<1>4. \A v \in Viewer : viewer'[v].step = viewer[v].step
  BY <1>1, <1>2, <1>3, ReceivedIsNext
<1>5. ChannelsOpen'
  BY <1>2, <1>4 DEF StreamInv, ChannelsOpen
<1>6. sentTo' = {}
  BY DEF Watching!Emit, StreamInv, ChannelsOpen
<1>7. ASSUME NEW v \in subs, ~viewer'[v].full
      PROVE  InStep(viewer'[v], emitted') /\ EndIsTold(viewer[v])'
  <2>1. v \in Viewer /\ viewer'[v] = Watching!Received(viewer[v], event)
    BY <1>2 DEF StreamInv, ChannelsOpen
  <2>2. ~viewer[v].full /\ WillBeTold(viewer'[v]) = event.running
    BY <2>1, <1>1, <1>3, <1>7, ReceivedIsNext
  <2>3. InStep(viewer[v], emitted) /\ emitted \in Nat /\ event.n = emitted + 1
    BY <2>2 DEF StreamInv, StreamTypeOK, event
  <2>4. InStep(viewer'[v], emitted')
    BY <2>1, <2>3, <1>1, <1>2, <1>3, <1>7, ReceivedIsNext
  <2>5. EndIsTold(viewer[v])'
    BY <2>2 DEF EndIsTold, Watching!At, WillBeTold, event
  <2> QED
    BY <2>4, <2>5
<1>8. ASSUME NEW v \in Viewer, viewer'[v].step # "streaming"  PROVE viewer'[v].queue = <<>>
  <2>1. viewer[v].step # "streaming" /\ viewer'[v] = viewer[v]
    BY <1>2, <1>4, <1>8 DEF StreamInv, ChannelsOpen
  <2> QED
    BY <2>1 DEF StreamInv
<1> QED
  BY <1>2, <1>5, <1>6, <1>7, <1>8 DEF StreamInv, Watching!At

\* A step of the task without an event does not touch the channels.
LEMMA SilentKeeps ==
    ASSUME StreamInv, Watching!ViewersUnchanged, StreamTypeOK',
           runner'.step = "ended" => ~running',
           runner'.step = "idle" => failed'
    PROVE  StreamInv'
<1>1. subs' = subs /\ viewer' = viewer /\ emitted' = emitted /\ sentTo' = sentTo
  BY DEF Watching!ViewersUnchanged
<1>2. ASSUME NEW v \in subs', ~viewer'[v].full
      PROVE  InStep(viewer'[v], emitted') /\ EndIsTold(viewer[v])'
  <2>1. InStep(viewer'[v], emitted')
    BY <1>1, <1>2 DEF StreamInv
  <2>2. EndIsTold(viewer[v])'
    BY DEF EndIsTold, Watching!At
  <2> QED
    BY <2>1, <2>2
<1>3. ChannelsOpen' /\ sentTo' = {} /\ (Watching!At("ended") => ~running)'
      /\ \A v \in Viewer : viewer'[v].step # "streaming" => viewer'[v].queue = <<>>
  BY <1>1 DEF StreamInv, ChannelsOpen, Watching!At
<1>4. \A v \in subs' : ~viewer'[v].full => InStep(viewer'[v], emitted') /\ EndIsTold(viewer[v])'
  BY <1>2
<1> QED
  BY <1>3, <1>4 DEF StreamInv

LEMMA TaskKeeps ==
    ASSUME StreamInv, Processors \in Nat, Watching!TaskStep
    PROVE  StreamInv'
<1>1. StreamTypeOK /\ StreamTypeOK'
  BY TaskTypes DEF StreamInv
<1> USE <1>1 DEF Watching!At, Watching!Go, TaskSteps
<1>2. CASE Watching!StartRun
  BY <1>2, SilentKeeps DEF Watching!StartRun
<1>3. CASE Watching!EmitStarted
  <2>1. Watching!Emit /\ runner'.step = "processors"
    BY <1>3 DEF Watching!EmitStarted, StreamTypeOK
  <2> QED
    BY <2>1, EmitKeeps
<1>4. CASE Watching!Announce
  <2>1. Watching!Emit /\ runner'.step \in {"processing", "processors"}
    BY <1>4 DEF Watching!Announce, StreamTypeOK
  <2> QED
    BY <2>1, EmitKeeps
<1>5. CASE Watching!AnnounceResults
  <2>1. Watching!Emit /\ runner'.step = "processors"
    BY <1>5 DEF Watching!AnnounceResults, StreamTypeOK
  <2> QED
    BY <2>1, EmitKeeps
<1>6. CASE Watching!PassOver
  <2>1. Watching!ViewersUnchanged /\ runner'.step = "processors"
    BY <1>6 DEF Watching!PassOver, StreamTypeOK
  <2> QED
    BY <2>1, SilentKeeps
<1>7. CASE Watching!FailRun
  <2>1. Watching!ViewersUnchanged /\ runner'.step = "idle" /\ failed'
    BY <1>7 DEF Watching!FailRun, StreamTypeOK
  <2> QED
    BY <2>1, SilentKeeps
<1>8. CASE Watching!EndRun
  <2>1. Watching!ViewersUnchanged /\ runner'.step = "ended" /\ ~running'
    BY <1>8 DEF Watching!EndRun, Watching!StatusAtEnd, StreamTypeOK
  <2> QED
    BY <2>1, SilentKeeps
<1>9. CASE Watching!EmitDone
  <2>1. Watching!Emit /\ runner'.step = "idle" /\ ~running
    BY <1>9 DEF Watching!EmitDone, StreamTypeOK, StreamInv
  <2> QED
    BY <2>1, EmitKeeps
<1> QED
  BY <1>2, <1>3, <1>4, <1>5, <1>6, <1>7, <1>8, <1>9 DEF Watching!TaskStep

\* What a connection does changes its own channel only; a new one has missed nothing since.
LEMMA ViewerKeeps ==
    ASSUME StreamInv, NEW v \in Viewer,
           \/ Watching!Connect(v) \/ Watching!Subscribe(v)
           \/ Watching!WriteEvent(v) \/ Watching!Unsubscribe(v)
    PROVE  StreamInv'
<1>1. StreamTypeOK /\ viewer[v] \in Connection /\ emitted \in Nat /\ runner.runs \in Nat
  BY DEF StreamInv, StreamTypeOK
<1>2. UNCHANGED <<running, runner, emitted, sentTo, failed>>
  BY DEF Watching!Connect, Watching!Subscribe, Watching!WriteEvent, Watching!Unsubscribe,
         Watching!TaskUnchanged
<1>3. SUFFICES
        /\ \E s \in Connection :
             /\ viewer' = [viewer EXCEPT ![v] = s]
             /\ v \in subs' <=> s.step = "streaming"
             /\ v \in subs' /\ ~s.full => InStep(s, emitted) /\ EndIsTold(s)
             /\ s.step # "streaming" => s.queue = <<>>
        /\ \A w \in Viewer \ {v} : w \in subs' <=> w \in subs
        /\ subs' \subseteq Viewer
  <2>1. PICK s \in Connection :
          /\ viewer' = [viewer EXCEPT ![v] = s]
          /\ v \in subs' <=> s.step = "streaming"
          /\ v \in subs' /\ ~s.full => InStep(s, emitted) /\ EndIsTold(s)
          /\ s.step # "streaming" => s.queue = <<>>
    BY <1>3
  <2>2. viewer' \in [Viewer -> Connection] /\ viewer'[v] = s
        /\ \A w \in Viewer \ {v} : viewer'[w] = viewer[w]
    BY <2>1, <1>1 DEF StreamTypeOK
  <2>3. StreamTypeOK' /\ ChannelsOpen'
    BY <1>1, <1>2, <1>3, <2>1, <2>2 DEF StreamTypeOK, ChannelsOpen, StreamInv
  <2>4. ASSUME NEW w \in subs', ~viewer'[w].full
        PROVE  InStep(viewer'[w], emitted') /\ EndIsTold(viewer[w])'
    <3>1. CASE w = v
      BY <3>1, <1>2, <2>1, <2>2, <2>4 DEF EndIsTold, Watching!At, WillBeTold
    <3>2. CASE w # v
      <4>1. w \in subs /\ viewer'[w] = viewer[w]
        BY <3>2, <1>3, <2>2
      <4> QED
        BY <4>1, <1>2, <2>4 DEF StreamInv, EndIsTold, Watching!At, WillBeTold
    <3> QED
      BY <3>1, <3>2
  <2> QED
    BY <1>2, <2>3, <2>4 DEF StreamInv, Watching!At
<1>4. CASE Watching!Connect(v)
  <2> DEFINE s == [Watching!Away EXCEPT !.step = "connected", !.told = running]
  <2>1. s \in Connection /\ s.step = "connected" /\ s.queue = <<>>
    <3>1. ASSUME NEW b \in BOOLEAN
          PROVE  LET c == [Watching!Away EXCEPT !.step = "connected", !.told = b] IN
                   c \in Connection /\ c.step = "connected" /\ c.queue = <<>>
      <4>1. Watching!Away \in Connection /\ Watching!Away.queue = <<>>
        BY DEF Watching!Away, Connection
      <4> QED
        BY <4>1 DEF Connection
    <3>2. running \in BOOLEAN
      BY <1>1 DEF StreamTypeOK
    <3> QED
      BY <3>1, <3>2, Zenon
  <2>2. viewer' = [viewer EXCEPT ![v] = s] /\ subs' = subs /\ v \notin subs
    BY <1>4 DEF Watching!Connect, StreamInv, ChannelsOpen
  <2> QED
    BY <2>1, <2>2 DEF StreamInv, ChannelsOpen
<1>5. CASE Watching!Subscribe(v)
  <2> DEFINE s == [viewer[v] EXCEPT !.step = "streaming", !.seen = emitted, !.since = runner.runs]
  <2>1. /\ s \in Connection /\ s.step = "streaming" /\ s.queue = viewer[v].queue
        /\ s.seen = emitted /\ s.since = runner.runs
    BY <1>1 DEF Connection
  <2>2. viewer' = [viewer EXCEPT ![v] = s] /\ subs' = subs \cup {v}
    BY <1>1, <1>5 DEF Watching!Subscribe, StreamTypeOK, Connection
  <2>3. viewer[v].queue = <<>>
    BY <1>5 DEF Watching!Subscribe, StreamInv
  <2>4. InStep(s, emitted) /\ EndIsTold(s)
    BY <1>1, <2>1, <2>3 DEF InStep, EndIsTold
  <2> QED
    BY <2>1, <2>2, <2>4 DEF StreamInv, ChannelsOpen
<1>6. CASE Watching!WriteEvent(v)
  <2> DEFINE s == HeadWritten(viewer[v])
  <2>1. /\ viewer' = [viewer EXCEPT ![v] = s] /\ subs' = subs
        /\ viewer[v].step = "streaming" /\ viewer[v].queue # <<>>
    BY <1>1, <1>6 DEF Watching!WriteEvent, HeadWritten, StreamTypeOK, Connection
  <2>2. /\ s \in Connection /\ s.step = "streaming" /\ s.full = viewer[v].full
        /\ s.since = viewer[v].since /\ WillBeTold(s) = WillBeTold(viewer[v])
        /\ InStep(viewer[v], emitted) => InStep(s, emitted)
    BY <1>1, <2>1, WrittenIsNext
  <2> HIDE DEF s
  <2>3. v \in subs
    BY <2>1 DEF StreamInv, ChannelsOpen
  <2>4. ~s.full => InStep(s, emitted) /\ EndIsTold(s)
    BY <2>2, <2>3 DEF StreamInv, EndIsTold
  <2> QED
    BY <2>1, <2>2, <2>3, <2>4 DEF StreamInv, ChannelsOpen
<1>7. CASE Watching!Unsubscribe(v)
  <2>1. Watching!Away \in Connection /\ Watching!Away.step = "away" /\ Watching!Away.queue = <<>>
    BY DEF Watching!Away, Connection, Event
  <2>2. viewer' = [viewer EXCEPT ![v] = Watching!Away] /\ subs' = subs \ {v}
    BY <1>7 DEF Watching!Unsubscribe
  <2> QED
    BY <2>1, <2>2 DEF StreamInv, ChannelsOpen
<1> QED
  BY <1>4, <1>5, <1>6, <1>7

LEMMA StreamUnchanged ==
    ASSUME StreamInv, UNCHANGED pageVars
    PROVE  StreamInv'
BY DEF pageVars, StreamInv, StreamTypeOK, ChannelsOpen, InStep, EndIsTold, WillBeTold, Watching!At

LEMMA StreamKeeps ==
    ASSUME StreamInv, Watching!StreamNext
    PROVE  StreamInv'
BY UpkeepAssumption, TaskKeeps, ViewerKeeps DEF Watching!StreamNext

-----------------------------------------------------------------------------
(* ProjectState *)

Reporter ==
    [step : {"idle", "trail", "list", "pending", "open", "write"}, report : Nat,
     shown : {<<>>} \cup [Project -> Nat], queue : SUBSET Nat]

BoardTypeOK ==
    /\ states \in [Project -> Nat] /\ grads \in Seq(0 .. 2) /\ reports \in Nat /\ faults \in Nat
    /\ writer \in [Writer -> Reporter]

\* The one process at work has read what the tables hold, and is alone with the file.
HasRead(w) ==
    /\ writer[w].step \in {"pending", "open", "write"} => writer[w].shown = states
    /\ writer[w].step \in {"open", "write"} => writer[w].queue = Board!Pending
    /\ writer[w].step = "write" => file = Board!NoFile

TrustInv ==
    trusted =>
      \/ Board!Busy = {} /\ file = Board!Board(states, Board!Pending)
      \/ alone \in Writer /\ Board!Busy = {alone} /\ HasRead(alone)

\* A state has its row in the trail, or the process that reported it is about to add it.
TrailInv ==
    faults = 0 =>
      \A p \in Project : states[p] # 0 =>
        states[p] \in trail \/ \E w \in Writer : Board!At(w, "trail") /\ writer[w].report = states[p]

LEMMA WriterGoes ==
    ASSUME BoardTypeOK, NEW w \in Writer, NEW r \in Reporter, Board!Go(w, r)
    PROVE  /\ writer' \in [Writer -> Reporter] /\ writer'[w] = r
           /\ \A v \in Writer \ {w} : writer'[v] = writer[v]
           /\ Board!Busy' = IF r.step = "idle" THEN Board!Busy \ {w} ELSE Board!Busy \cup {w}
<1>1. /\ writer' \in [Writer -> Reporter] /\ writer'[w] = r
      /\ \A v \in Writer \ {w} : writer'[v] = writer[v]
  BY DEF BoardTypeOK, Board!Go
<1> QED
  BY <1>1 DEF Board!Busy, Board!At

\* A step that keeps the tables and the places of the others keeps what the trail lacks.
LEMMA TrailKept ==
    ASSUME BoardTypeOK, TrailInv, NEW w \in Writer, faults' = faults, UNCHANGED states,
           \A v \in Writer \ {w} : writer'[v] = writer[v],
           trail \subseteq trail', Board!At(w, "trail") => writer[w].report \in trail'
    PROVE  TrailInv'
  BY DEF TrailInv, Board!At

\* The place of a process that is alone after a step says that it was before.
LEMMA AloneAtWork ==
    ASSUME TrustInv, trusted, NEW w \in Writer, ~ Board!At(w, "idle")
    PROVE  alone = w /\ Board!Busy = {w} /\ HasRead(w)
<1>1. w \in Board!Busy
  BY DEF Board!Busy
<1> QED
  BY <1>1 DEF TrustInv

BoardAll == BoardTypeOK /\ TrustInv /\ TrailInv

\* A process begins, with a change of the tables.
LEMMA BeginKeeps ==
    ASSUME BoardAll, NEW w \in Writer, Board!Begin(w), NEW r \in Reporter, Board!Go(w, r),
           r.step \in {"trail", "list"}, trail' = trail,
           states' \in [Project -> Nat], grads' \in Seq(0 .. 2), reports' \in Nat,
           \A p \in Project : states'[p] = states[p] \/ (r.step = "trail" /\ states'[p] = r.report)
    PROVE  BoardAll'
<1> USE DEF BoardAll
<1>1. /\ Board!At(w, "idle") /\ UNCHANGED <<file, faults>>
      /\ alone' = IF Board!Busy = {} THEN w ELSE Board!Nobody
      /\ trusted' = (Board!Busy = {})
  BY DEF Board!Begin
<1>2. /\ writer' \in [Writer -> Reporter] /\ writer'[w] = r
      /\ \A v \in Writer \ {w} : writer'[v] = writer[v]
      /\ Board!Busy' = Board!Busy \cup {w}
  BY WriterGoes
<1>3. BoardTypeOK'
  BY <1>1, <1>2 DEF BoardTypeOK
<1>4. TrustInv'
  <2> SUFFICES ASSUME trusted'
               PROVE  alone' \in Writer /\ Board!Busy' = {alone'} /\ HasRead(alone)'
    BY DEF TrustInv
  <2>1. alone' = w /\ Board!Busy' = {w}
    BY <1>1, <1>2
  <2>2. writer'[alone'].step \in {"trail", "list"}
    BY <1>2, <2>1
  <2> QED
    BY <2>1, <2>2 DEF HasRead
<1>5. TrailInv'
  <2> SUFFICES ASSUME faults' = 0, NEW p \in Project, states'[p] # 0
               PROVE  states'[p] \in trail'
                      \/ \E v \in Writer : Board!At(v, "trail")' /\ writer'[v].report = states'[p]
    BY DEF TrailInv, Board!At
  <2>1. CASE states'[p] = states[p]
    <3>1. CASE states[p] \in trail
      BY <2>1, <3>1
    <3>2. CASE states[p] \notin trail
      <4>1. PICK v \in Writer : Board!At(v, "trail") /\ writer[v].report = states[p]
        BY <1>1, <2>1, <3>2 DEF TrailInv
      <4>2. v # w
        BY <1>1, <4>1 DEF Board!At
      <4> QED
        BY <1>2, <2>1, <4>1, <4>2 DEF Board!At
    <3> QED
      BY <3>1, <3>2
  <2>2. CASE r.step = "trail" /\ states'[p] = r.report
    BY <1>2, <2>2 DEF Board!At
  <2> QED
    BY <2>1, <2>2
<1> QED
  BY <1>3, <1>4, <1>5

\* After a failure nothing is promised.
LEMMA FailureKeeps ==
    ASSUME BoardAll, NEW w \in Writer, Board!Fails, Board!TablesUnchanged,
           NEW r \in Reporter, Board!Go(w, r)
    PROVE  BoardAll'
<1>1. writer' \in [Writer -> Reporter]
  BY WriterGoes DEF BoardAll
<1>2. faults' = faults + 1 /\ ~ trusted' /\ faults \in Nat
  BY DEF Board!Fails, BoardAll, BoardTypeOK
<1> QED
  BY <1>1, <1>2 DEF BoardAll, BoardTypeOK, TrustInv, TrailInv, Board!TablesUnchanged

\* A process at work goes on, with what it has read.
LEMMA WorkKeeps ==
    ASSUME BoardAll, NEW w \in Writer, ~ Board!At(w, "idle"), Board!HistoryUnchanged,
           UNCHANGED <<states, grads, reports, faults>>,
           trail \subseteq trail', Board!At(w, "trail") => writer[w].report \in trail',
           NEW r \in Reporter, Board!Go(w, r),
           HasRead(w) =>
             IF r.step = "idle" THEN file' = Board!Board(states, Board!Pending)
             ELSE /\ r.step \in {"pending", "open", "write"} => r.shown = states
                  /\ r.step \in {"open", "write"} => r.queue = Board!Pending
                  /\ r.step = "write" => file' = Board!NoFile
    PROVE  BoardAll'
<1> USE DEF BoardAll
<1>1. /\ writer' \in [Writer -> Reporter] /\ writer'[w] = r
      /\ \A v \in Writer \ {w} : writer'[v] = writer[v]
      /\ Board!Busy' = IF r.step = "idle" THEN Board!Busy \ {w} ELSE Board!Busy \cup {w}
  BY WriterGoes
<1>2. TrailInv'
  BY <1>1, TrailKept
<1>3. Board!Pending' = Board!Pending
  BY DEF Board!Pending
<1>4. TrustInv'
  <2> SUFFICES ASSUME trusted'
               PROVE  \/ Board!Busy' = {} /\ file' = Board!Board(states, Board!Pending)
                      \/ alone' \in Writer /\ Board!Busy' = {alone'} /\ HasRead(alone)'
    BY <1>3 DEF TrustInv, Board!Board
  <2>1. trusted /\ alone' = alone
    BY DEF Board!HistoryUnchanged
  <2>2. alone = w /\ Board!Busy = {w} /\ HasRead(w)
    BY <2>1, AloneAtWork
  <2>3. CASE r.step = "idle"
    BY <1>1, <2>2, <2>3
  <2>4. CASE r.step # "idle"
    <3>1. Board!Busy' = {w}
      BY <1>1, <2>2, <2>4
    <3>2. HasRead(alone)'
      BY <1>1, <1>3, <2>1, <2>2, <2>4 DEF HasRead, Board!NoFile
    <3> QED
      BY <2>1, <2>2, <3>1, <3>2
  <2> QED
    BY <2>3, <2>4
<1> QED
  BY <1>1, <1>2, <1>4 DEF BoardTypeOK

LEMMA BoardStep ==
    ASSUME BoardAll, NEW w \in Writer, Board!Step(w)
    PROVE  BoardAll'
<1> DEFINE here == writer[w]
<1>1. here \in Reporter /\ Board!Idle \in Reporter /\ Board!Idle.step = "idle"
  BY DEF BoardAll, BoardTypeOK, Reporter, Board!Idle
<1>2. ASSUME NEW r \in Reporter, NEW step \in {"trail", "list", "pending", "open", "write"}
      PROVE  /\ [r EXCEPT !.step = step] \in Reporter
             /\ [r EXCEPT !.step = step].step = step
             /\ [r EXCEPT !.step = step].shown = r.shown
             /\ [r EXCEPT !.step = step].queue = r.queue
  BY DEF Reporter
<1>3. CASE \E p \in Project : Board!SetProjectState(w, p)
  <2>1. PICK p \in Project : Board!SetProjectState(w, p)
    BY <1>3
  <2>2. PICK r : r = [Board!Idle EXCEPT !.step = "trail", !.report = reports + 1]
    OBVIOUS
  <2>3. reports \in Nat /\ r \in Reporter /\ r.step = "trail" /\ r.report = reports + 1
    <3>1. reports \in Nat
      BY DEF BoardAll, BoardTypeOK
    <3>2. PICK next \in Nat : next = reports + 1
      BY <3>1
    <3>3. PICK idle \in Reporter : r = [idle EXCEPT !.step = "trail", !.report = next]
      BY <1>1, <2>2, <3>2
    <3>4. r \in Reporter /\ r.step = "trail" /\ r.report = next
      BY <3>3 DEF Reporter
    <3> QED
      BY <3>1, <3>2, <3>4
  <2>4. /\ Board!Begin(w) /\ Board!Go(w, r) /\ trail' = trail /\ grads' = grads
        /\ reports' = reports + 1 /\ states' = [states EXCEPT ![p] = r.report]
    BY <2>1, <2>2, <2>3 DEF Board!SetProjectState
  <2>5. /\ states' \in [Project -> Nat] /\ reports' \in Nat /\ grads' \in Seq(0 .. 2)
        /\ \A q \in Project : states'[q] = states[q] \/ states'[q] = r.report
    BY <2>3, <2>4 DEF BoardAll, BoardTypeOK
  <2>6. /\ r.step \in {"trail", "list"}
        /\ \A q \in Project : states'[q] = states[q] \/ (r.step = "trail" /\ states'[q] = r.report)
    BY <2>3, <2>5
  <2> QED
    BY ONLY BoardAll, w \in Writer, <2>3, <2>4, <2>5, <2>6, BeginKeeps
<1>4. CASE \/ Board!AddGraduation(w)
           \/ \E g \in DOMAIN grads, kept \in 1 .. 2 : Board!CompleteGraduation(w, g, kept)
  <2>1. PICK r : r = [Board!Idle EXCEPT !.step = "list"]
    OBVIOUS
  <2>2. r \in Reporter /\ r.step = "list"
    BY <1>1, <1>2, <2>1
  <2>3. Board!Begin(w) /\ Board!Go(w, r) /\ UNCHANGED <<states, trail, reports>>
    BY <1>4, <2>1 DEF Board!AddGraduation, Board!CompleteGraduation
  <2>4. grads \in Seq(0 .. 2) /\ states \in [Project -> Nat] /\ reports \in Nat
    BY DEF BoardAll, BoardTypeOK
  <2>5. grads' \in Seq(0 .. 2)
    <3>1. CASE Board!AddGraduation(w)
      BY <2>4, <3>1 DEF Board!AddGraduation
    <3>2. ASSUME NEW g \in DOMAIN grads, NEW kept \in 1 .. 2, Board!CompleteGraduation(w, g, kept)
          PROVE  grads' \in Seq(0 .. 2)
      <4>1. grads' = [grads EXCEPT ![g] = kept] /\ kept \in 0 .. 2
        BY <3>2 DEF Board!CompleteGraduation
      <4> QED
        BY <2>4, <4>1, ExceptSeq
    <3> QED
      BY <1>4, <3>1, <3>2
  <2>6. /\ r.step \in {"trail", "list"} /\ trail' = trail
        /\ states' \in [Project -> Nat] /\ reports' \in Nat
        /\ \A q \in Project : states'[q] = states[q] \/ (r.step = "trail" /\ states'[q] = r.report)
    BY <2>2, <2>3, <2>4
  <2> QED
    BY ONLY BoardAll, w \in Writer, <2>2, <2>3, <2>5, <2>6, BeginKeeps
<1>5. CASE Board!AppendHistory(w)
  <2>1. PICK r : r = [here EXCEPT !.step = "list"]
    OBVIOUS
  <2>2. r \in Reporter /\ r.step = "list"
    BY <1>1, <1>2, <2>1
  <2> QED
    BY <1>5, <2>1, <2>2, WorkKeeps DEF Board!AppendHistory, Board!At
<1>6. CASE Board!AppendHistoryFails(w)
  <2>1. PICK r : r = [here EXCEPT !.step = "list"]
    OBVIOUS
  <2>2. r \in Reporter
    BY <1>1, <1>2, <2>1
  <2> QED
    BY <1>6, <2>1, <2>2, FailureKeeps DEF Board!AppendHistoryFails
<1>7. CASE Board!ListProjectStates(w)
  <2>1. PICK r : r = [here EXCEPT !.step = "pending", !.shown = states]
    OBVIOUS
  <2>2. r \in Reporter /\ r.step = "pending" /\ r.shown = states
    BY <1>1, <2>1 DEF Reporter, BoardAll, BoardTypeOK
  <2>3. Board!Go(w, r)
    BY <1>7, <2>1 DEF Board!ListProjectStates, Board!Shown
  <2> QED
    BY <1>7, <2>2, <2>3, WorkKeeps DEF Board!ListProjectStates, Board!At, Board!TablesUnchanged
<1>8. CASE Board!ListGraduations(w)
  <2>1. PICK r : r = [here EXCEPT !.step = "open", !.queue = Board!Pending]
    OBVIOUS
  <2>2. Board!Pending \subseteq Nat
    BY DEF BoardAll, BoardTypeOK, Board!Pending
  <2>3. r \in Reporter /\ r.step = "open" /\ r.shown = here.shown /\ r.queue = Board!Pending
    BY <1>1, <2>1, <2>2 DEF Reporter
  <2>4. Board!Go(w, r)
    BY <1>8, <2>1 DEF Board!ListGraduations
  <2> QED
    BY <1>8, <2>3, <2>4, WorkKeeps
       DEF Board!ListGraduations, Board!At, Board!TablesUnchanged, HasRead
<1>9. CASE Board!ListFails(w)
  <2>1. PICK r : r = IF Board!At(w, "list") THEN Board!Idle ELSE [here EXCEPT !.step = "open"]
    OBVIOUS
  <2>2. r \in Reporter
    BY <1>1, <1>2, <2>1
  <2> QED
    BY <1>9, <2>1, <2>2, FailureKeeps DEF Board!ListFails
<1>10. CASE Board!Truncate(w)
  <2>1. PICK r : r = [here EXCEPT !.step = "write"]
    OBVIOUS
  <2>2. r \in Reporter /\ r.step = "write" /\ r.shown = here.shown /\ r.queue = here.queue
    BY <1>1, <1>2, <2>1
  <2>3. Board!Go(w, r)
    BY <1>10, <2>1 DEF Board!Truncate
  <2> QED
    BY <1>10, <2>2, <2>3, WorkKeeps DEF Board!Truncate, Board!At, Board!TablesUnchanged, HasRead
<1>11. CASE Board!WriteFile(w)
  <2>1. PICK r : r = Board!Idle
    OBVIOUS
  <2>2. HasRead(w) => file' = Board!Board(states, Board!Pending)
    BY <1>11 DEF Board!WriteFile, Board!At, HasRead
  <2> QED
    BY <1>1, <1>11, <2>1, <2>2, WorkKeeps DEF Board!WriteFile, Board!At, Board!TablesUnchanged
<1>12. CASE Board!Kill(w)
  BY <1>1, <1>12, FailureKeeps DEF Board!Kill
<1> QED
  BY <1>3, <1>4, <1>5, <1>6, <1>7, <1>8, <1>9, <1>10, <1>11, <1>12 DEF Board!Step

-----------------------------------------------------------------------------
(* Upgrade *)

Value == {Opening!NoRow, ""} \cup Origin
Tokenizer == {v.tokenizer : v \in Vintage} \cup {"none", "trigram"}

\* The steps an opener is at after the pointers were set.
Late == {"eventColumns", "provenance", "tokenizer", "create", "reindex", "open"}
Reached(steps) == \E p \in Proc : opener[p] \in steps

UpgradeTypeOK ==
    /\ rows \in [Entry -> Value] /\ events \in [Entry -> Value] /\ first \in [Entry -> Value]
    /\ pointer \subseteq Entry
    /\ index \in [tokenizer : Tokenizer, entries : [Entry -> Nat]]
    /\ opener \in [Proc -> {"idle", "schema", "links", "columns", "fill", "point", "failed"} \cup Late]

\* An opener that goes on leaves behind what it was to do: the others can rely on it.
SourcedInv ==
    /\ \A c \in pointer : events[c] # Opening!NoRow
    /\ Reached(Late \cup {"point"}) => \A c \in Opening!Rows : events[c] # Opening!NoRow
    /\ Reached(Late) => pointer = Opening!Rows
    /\ \A c \in Entry : first[c] \in Origin => events[c] = first[c]

\* As long as nobody disturbs it, an index is complete or empty, and rebuilt by one opener.
IndexInv ==
    ~ shaken =>
      IF Opening!Rebuilding = {} THEN index.entries = Opening!Once(Opening!Rows)
      ELSE \E p \in Proc :
             /\ Opening!Rebuilding = {p} /\ \A q \in Proc \ {p} : opener[q] = "idle"
             /\ index.entries = Opening!Once({})

UpgradeInv == UpgradeTypeOK /\ SourcedInv /\ IndexInv

LEMMA OpenerGoes ==
    ASSUME UpgradeTypeOK, NEW p \in Proc, NEW step, Opening!Go(p, step)
    PROVE  /\ opener'[p] = step /\ \A q \in Proc \ {p} : opener'[q] = opener[q]
           /\ \A steps : Reached(steps)' => Reached(steps) \/ step \in steps
           /\ \A steps : opener[p] \in steps => Reached(steps)
           /\ step \in {"idle", "schema", "links", "columns", "fill", "point", "failed"} \cup Late =>
                opener' \in
                  [Proc -> {"idle", "schema", "links", "columns", "fill", "point", "failed"} \cup Late]
  BY DEF UpgradeTypeOK, Opening!Go, Reached

\* The steps that only move an opener on, the index aside.
LEMMA SourcedMoves ==
    ASSUME UpgradeTypeOK, SourcedInv, NEW p \in Proc, NEW step, Opening!Go(p, step),
           UNCHANGED <<rows, pointer, events, first>>,
           step \in Late => opener[p] \in Late,
           step \in Late \cup {"point"} => opener[p] \in Late \cup {"point"}
    PROVE  SourcedInv'
<1>1. Opening!Rows' = Opening!Rows
  BY DEF Opening!Rows
<1>2. Reached(Late)' => Reached(Late)
  BY OpenerGoes
<1>3. Reached(Late \cup {"point"})' => Reached(Late \cup {"point"})
  BY OpenerGoes
<1> QED
  BY <1>1, <1>2, <1>3 DEF SourcedInv

LEMMA FirstKept ==
    ASSUME UpgradeTypeOK, SourcedInv, events' \in [Entry -> Value],
           \A c \in Entry : events'[c] # events[c] => events[c] \notin Origin,
           first' = first \/ first' = Opening!FirstOf(events')
    PROVE  /\ first' \in [Entry -> Value]
           /\ \A c \in Entry : first'[c] \in Origin => events'[c] = first'[c]
<1>1. \A c \in Entry : first[c] \in Origin => events'[c] = first[c]
  BY DEF SourcedInv
<1>2. CASE first' = first
  BY <1>1, <1>2 DEF UpgradeTypeOK
<1>3. CASE first' = Opening!FirstOf(events')
  <2>1. first' = [c \in Entry |-> IF first[c] \in Origin THEN first[c] ELSE events'[c]]
    BY <1>3 DEF Opening!FirstOf
  <2>2. \A c \in Entry : first[c] \in Value /\ events'[c] \in Value
    BY DEF UpgradeTypeOK
  <2> QED
    BY <1>1, <2>1, <2>2
<1> QED
  BY <1>2, <1>3

\* An opener fills in the events, sets the pointers, and fills in the provenance.
LEMMA FillKeeps ==
    ASSUME UpgradeTypeOK, SourcedInv, NEW p \in Proc, Opening!FillEvents(p)
    PROVE  SourcedInv' /\ events' \in [Entry -> Value] /\ first' = first
<1> DEFINE none == Opening!NoRow
<1>1. /\ Opening!Go(p, "point") /\ opener[p] = "fill" /\ UNCHANGED <<rows, pointer, first>>
      /\ events' = [c \in Entry |-> IF c \in Opening!Rows /\ events[c] = none THEN "" ELSE events[c]]
  BY DEF Opening!FillEvents, Opening!After, Opening!At
<1>2. events' \in [Entry -> Value] /\ none # "" /\ none \notin Origin
  BY <1>1, UpkeepAssumption DEF UpgradeTypeOK, Value, Opening!NoRow
<1>3. Opening!Rows' = Opening!Rows /\ Opening!Rows \subseteq Entry
  BY <1>1 DEF Opening!Rows
<1>4. \A c \in Entry : first'[c] \in Origin => events'[c] = first'[c]
  BY <1>1, <1>2, FirstKept
<1>5. Reached(Late)' => Reached(Late)
  BY <1>1, OpenerGoes DEF Late
<1>6. /\ \A c \in pointer : events'[c] # none
      /\ \A c \in Opening!Rows : events'[c] # none
  BY <1>1, <1>2, <1>3 DEF SourcedInv, UpgradeTypeOK
<1> QED
  BY <1>1, <1>2, <1>3, <1>4, <1>5, <1>6 DEF SourcedInv

LEMMA PointKeeps ==
    ASSUME UpgradeTypeOK, SourcedInv, NEW p \in Proc, Opening!SetPointers(p)
    PROVE  SourcedInv' /\ pointer' \subseteq Entry
<1>1. /\ Opening!Go(p, "eventColumns") /\ opener[p] = "point"
      /\ UNCHANGED <<rows, events, first>> /\ pointer' = Opening!Rows
  BY DEF Opening!SetPointers, Opening!After, Opening!At
<1>2. Opening!Rows' = Opening!Rows /\ Opening!Rows \subseteq Entry
  BY <1>1 DEF Opening!Rows
<1>3. Reached(Late \cup {"point"})
  BY <1>1 DEF Reached
<1> QED
  BY <1>1, <1>2, <1>3 DEF SourcedInv

LEMMA BackfillKeeps ==
    ASSUME UpgradeTypeOK, SourcedInv, NEW p \in Proc, Opening!BackfillProvenance(p)
    PROVE  SourcedInv' /\ events' \in [Entry -> Value] /\ first' \in [Entry -> Value]
<1> DEFINE none == Opening!NoRow
<1>1. /\ Opening!Go(p, "tokenizer") /\ opener[p] = "provenance" /\ UNCHANGED <<rows, pointer>>
      /\ events' = [c \in Entry |-> IF events[c] = "" /\ c \in pointer THEN rows[c] ELSE events[c]]
      /\ first' = Opening!FirstOf(events')
  BY DEF Opening!BackfillProvenance, Opening!After, Opening!At
<1>2. events' \in [Entry -> Value] /\ "" \notin Origin
  BY <1>1, UpkeepAssumption DEF UpgradeTypeOK
<1>3. Opening!Rows' = Opening!Rows /\ Opening!Rows \subseteq Entry
  BY <1>1 DEF Opening!Rows
<1>4. /\ first' \in [Entry -> Value]
      /\ \A c \in Entry : first'[c] \in Origin => events'[c] = first'[c]
  BY <1>1, <1>2, FirstKept
<1>5. Reached(Late) /\ Reached(Late \cup {"point"})
  BY <1>1 DEF Reached, Late
<1>6. pointer = Opening!Rows /\ \A c \in Opening!Rows : events[c] # none /\ rows[c] # none
  BY <1>5 DEF SourcedInv, Opening!Rows
<1>7. \A c \in Opening!Rows : events'[c] # none
  BY <1>1, <1>3, <1>6
<1> QED
  BY <1>1, <1>2, <1>3, <1>4, <1>6, <1>7 DEF SourcedInv

\* While someone has the database open, rows are written with their event and deleted.
LEMMA WriteKeeps ==
    ASSUME UpgradeTypeOK, SourcedInv, NEW p \in Proc, NEW c \in Entry, NEW o \in {""} \cup Origin,
           Opening!Write(p, c, o)
    PROVE  /\ SourcedInv' /\ events' \in [Entry -> Value] /\ first' \in [Entry -> Value]
           /\ rows' \in [Entry -> Value] /\ pointer' \subseteq Entry
           /\ Opening!Rows' = Opening!Rows \cup {c}
<1> DEFINE none == Opening!NoRow
           new(v) == IF v \in {none, ""} THEN o ELSE v
<1>1. /\ opener[p] = "open" /\ opener' = opener
      /\ events' = [events EXCEPT ![c] = new(@)] /\ rows' = [rows EXCEPT ![c] = new(@)]
      /\ first' = Opening!FirstOf(events') /\ pointer' = pointer \cup {c}
  BY DEF Opening!Write, Opening!Changes, Opening!At
<1>2. "" \notin Origin /\ none \notin Origin /\ none # "" /\ o # none /\ o \in Value
  BY UpkeepAssumption DEF Opening!NoRow, Value
<1>3. \A v \in Value : new(v) \in Value /\ new(v) # none /\ (v \in Origin => new(v) = v)
  BY <1>2 DEF Value
<1> HIDE DEF new
<1>4. events' \in [Entry -> Value] /\ rows' \in [Entry -> Value]
  BY <1>1, <1>3 DEF UpgradeTypeOK
<1>5. \A d \in Entry : /\ events'[d] = IF d = c THEN new(events[d]) ELSE events[d]
                       /\ rows'[d] = IF d = c THEN new(rows[d]) ELSE rows[d]
  BY <1>1 DEF UpgradeTypeOK
<1>6. Opening!Rows' = Opening!Rows \cup {c}
  BY <1>3, <1>5 DEF Opening!Rows, UpgradeTypeOK
<1>7. \A d \in Entry : events'[d] # events[d] => events[d] \notin Origin
  BY <1>3, <1>5 DEF UpgradeTypeOK
<1>8. /\ first' \in [Entry -> Value]
      /\ \A d \in Entry : first'[d] \in Origin => events'[d] = first'[d]
  BY <1>1, <1>4, <1>7, FirstKept
<1>9. Reached(Late) /\ Reached(Late \cup {"point"})
  BY <1>1 DEF Reached, Late
<1>10. pointer = Opening!Rows /\ pointer \subseteq Entry /\ \A d \in pointer : events[d] # none
  BY <1>9 DEF SourcedInv, UpgradeTypeOK
<1>11. pointer' = Opening!Rows' /\ pointer' \subseteq Entry /\ \A d \in pointer' : events'[d] # none
  BY <1>1, <1>3, <1>5, <1>6, <1>10 DEF UpgradeTypeOK
<1> QED
  BY <1>4, <1>6, <1>8, <1>11 DEF SourcedInv

LEMMA DeleteKeeps ==
    ASSUME UpgradeTypeOK, SourcedInv, NEW p \in Proc, NEW c \in Entry, Opening!Delete(p, c)
    PROVE  /\ SourcedInv' /\ rows' \in [Entry -> Value] /\ pointer' \subseteq Entry
           /\ Opening!Rows' = Opening!Rows \ {c}
<1>1. /\ opener[p] = "open" /\ opener' = opener /\ events' = events /\ first' = first
      /\ rows' = [rows EXCEPT ![c] = Opening!NoRow] /\ pointer' = pointer \ {c}
  BY DEF Opening!Delete, Opening!Changes, Opening!At
<1>2. rows' \in [Entry -> Value] /\ Opening!Rows' = Opening!Rows \ {c}
  BY <1>1 DEF UpgradeTypeOK, Value, Opening!Rows
<1>3. Reached(Late)
  BY <1>1 DEF Reached, Late
<1>4. pointer = Opening!Rows /\ pointer \subseteq Entry
  BY <1>3 DEF SourcedInv, UpgradeTypeOK
<1> QED
  BY <1>1, <1>2, <1>4 DEF SourcedInv

LEMMA RebuildingGoes ==
    ASSUME UpgradeTypeOK, NEW p \in Proc, NEW step, Opening!Go(p, step)
    PROVE  Opening!Rebuilding' = IF step \in {"create", "reindex"} THEN Opening!Rebuilding \cup {p}
                                 ELSE Opening!Rebuilding \ {p}
  BY OpenerGoes DEF Opening!Rebuilding

\* While the index is not disturbed, an opener at work does not rebuild it, or is alone.
LEMMA AtWork ==
    ASSUME IndexInv, ~ shaken, NEW p \in Proc, opener[p] # "idle"
    PROVE  IF opener[p] \in {"create", "reindex"}
           THEN /\ Opening!Rebuilding = {p} /\ \A q \in Proc \ {p} : opener[q] = "idle"
                /\ index.entries = Opening!Once({})
           ELSE Opening!Rebuilding = {} /\ index.entries = Opening!Once(Opening!Rows)
<1>1. p \in Opening!Rebuilding <=> opener[p] \in {"create", "reindex"}
  BY DEF Opening!Rebuilding
<1>2. ASSUME Opening!Rebuilding # {}
      PROVE  /\ opener[p] \in {"create", "reindex"}
             /\ Opening!Rebuilding = {p} /\ \A q \in Proc \ {p} : opener[q] = "idle"
             /\ index.entries = Opening!Once({})
  <2>1. PICK r \in Proc :
          /\ Opening!Rebuilding = {r} /\ \A q \in Proc \ {r} : opener[q] = "idle"
          /\ index.entries = Opening!Once({})
    BY <1>2 DEF IndexInv
  <2>2. r = p
    BY <2>1
  <2> QED
    BY <1>1, <2>1, <2>2
<1> QED
  BY <1>1, <1>2 DEF IndexInv

\* An opener that is not rebuilding goes on, and does not begin to.
LEMMA IndexMoves ==
    ASSUME UpgradeTypeOK, IndexInv, NEW p \in Proc, NEW step, Opening!Go(p, step),
           step \notin {"create", "reindex"}, opener[p] \notin {"create", "reindex"},
           UNCHANGED rows, index'.entries = index.entries,
           \/ shaken' = shaken /\ opener[p] # "idle"
           \/ shaken' = (shaken \/ Opening!Rebuilding # {})
    PROVE  IndexInv'
<1> SUFFICES ASSUME ~ shaken'
             PROVE  Opening!Rebuilding' = {} /\ index'.entries = Opening!Once(Opening!Rows)'
  BY DEF IndexInv
<1>1. Opening!Rebuilding = {} /\ index.entries = Opening!Once(Opening!Rows)
  <2>1. CASE shaken' = shaken /\ opener[p] # "idle"
    <3>1. ~ shaken
      BY <2>1
    <3> QED
      BY <2>1, <3>1, AtWork
  <2>2. CASE shaken' = (shaken \/ Opening!Rebuilding # {})
    <3>1. ~ shaken /\ Opening!Rebuilding = {}
      BY <2>2
    <3> QED
      BY <3>1 DEF IndexInv
  <2> QED
    BY <2>1, <2>2
<1>2. Opening!Rebuilding' = {}
  BY <1>1, RebuildingGoes
<1>3. Opening!Rows' = Opening!Rows
  BY DEF Opening!Rows
<1> QED
  BY <1>1, <1>2, <1>3 DEF Opening!Once

LEMMA MigrateKeeps ==
    ASSUME UpgradeTypeOK, IndexInv, NEW p \in Proc, Opening!MigrateIndex(p)
    PROVE  IndexInv' /\ index' \in [tokenizer : Tokenizer, entries : [Entry -> Nat]]
<1>1. opener[p] = "tokenizer" /\ UNCHANGED <<rows, pointer, events, first>>
  BY DEF Opening!MigrateIndex, Opening!At
<1>2. CASE index.tokenizer = "unicode61"
  <2>1. /\ index' = [tokenizer |-> "none", entries |-> Opening!Once({})]
        /\ Opening!Go(p, "create") /\ shaken' = (shaken \/ \E q \in Proc \ {p} : opener[q] # "idle")
    BY <1>2 DEF Opening!MigrateIndex
  <2>2. index' \in [tokenizer : Tokenizer, entries : [Entry -> Nat]]
    BY <2>1 DEF Opening!Once, Tokenizer
  <2>3. ASSUME ~ shaken'
        PROVE  /\ Opening!Rebuilding' = {p} /\ \A q \in Proc \ {p} : opener'[q] = "idle"
               /\ index'.entries = Opening!Once({})'
    <3>1. \A q \in Proc \ {p} : opener'[q] = "idle"
      BY <2>1, <2>3, OpenerGoes
    <3>2. Opening!Rebuilding = {}
      BY <1>1, <2>1, <2>3, AtWork
    <3>3. Opening!Rebuilding' = {p}
      BY <2>1, <3>2, RebuildingGoes
    <3> QED
      BY <2>1, <3>1, <3>3 DEF Opening!Once
  <2> QED
    BY <2>2, <2>3 DEF IndexInv
<1>3. CASE index.tokenizer # "unicode61"
  <2>1. Opening!Go(p, "open") /\ UNCHANGED <<index, shaken>>
    BY <1>3 DEF Opening!MigrateIndex
  <2> QED
    BY <1>1, <2>1, IndexMoves DEF UpgradeTypeOK
<1> QED
  BY <1>2, <1>3

LEMMA CreateKeeps ==
    ASSUME UpgradeTypeOK, IndexInv, NEW p \in Proc, Opening!CreateIndex(p)
    PROVE  IndexInv' /\ index' \in [tokenizer : Tokenizer, entries : [Entry -> Nat]]
<1>1. /\ opener[p] = "create" /\ Opening!Go(p, "reindex") /\ UNCHANGED <<rows, shaken>>
      /\ index' = index \/ index' = [index EXCEPT !.tokenizer = "trigram"]
  BY DEF Opening!CreateIndex, Opening!At, Opening!After
<1>2. index' \in [tokenizer : Tokenizer, entries : [Entry -> Nat]] /\ index'.entries = index.entries
  BY <1>1 DEF UpgradeTypeOK, Tokenizer
<1>3. ASSUME ~ shaken'
      PROVE  /\ Opening!Rebuilding' = {p} /\ \A q \in Proc \ {p} : opener'[q] = "idle"
             /\ index'.entries = Opening!Once({})'
  <2>1. /\ Opening!Rebuilding = {p} /\ \A q \in Proc \ {p} : opener[q] = "idle"
        /\ index.entries = Opening!Once({})
    BY <1>1, <1>3, AtWork
  <2>2. Opening!Rebuilding' = {p}
    BY <1>1, <2>1, RebuildingGoes
  <2>3. \A q \in Proc \ {p} : opener'[q] = "idle"
    BY <1>1, <2>1, OpenerGoes
  <2> QED
    BY <1>2, <2>1, <2>2, <2>3 DEF Opening!Once
<1> QED
  BY <1>2, <1>3 DEF IndexInv

LEMMA ReindexKeeps ==
    ASSUME UpgradeTypeOK, IndexInv, NEW p \in Proc, Opening!Reindex(p)
    PROVE  IndexInv' /\ index' \in [tokenizer : Tokenizer, entries : [Entry -> Nat]]
<1> DEFINE added == [c \in Entry |-> index.entries[c] + Opening!Once(Opening!Rows)[c]]
<1>1. /\ opener[p] = "reindex" /\ Opening!Go(p, "open") /\ UNCHANGED <<rows, shaken>>
      /\ index' = [index EXCEPT !.entries = added]
  BY DEF Opening!Reindex, Opening!At, Opening!After
<1>2. Opening!Once(Opening!Rows) \in [Entry -> Nat]
  BY DEF Opening!Once
<1>3. added \in [Entry -> Nat]
  BY <1>2 DEF UpgradeTypeOK
<1>4. index' \in [tokenizer : Tokenizer, entries : [Entry -> Nat]] /\ index'.entries = added
  <2> HIDE DEF added
  <2> QED
    BY <1>1, <1>3 DEF UpgradeTypeOK
<1>5. ASSUME ~ shaken'
      PROVE  Opening!Rebuilding' = {} /\ index'.entries = Opening!Once(Opening!Rows)'
  <2>1. Opening!Rebuilding = {p} /\ index.entries = Opening!Once({})
    BY <1>1, <1>5, AtWork
  <2>2. Opening!Rebuilding' = {}
    BY <1>1, <2>1, RebuildingGoes
  <2>3. added = Opening!Once(Opening!Rows)
    BY <2>1 DEF Opening!Once
  <2>4. Opening!Rows' = Opening!Rows
    BY <1>1 DEF Opening!Rows
  <2> QED
    BY <1>4, <2>2, <2>3, <2>4 DEF Opening!Once
<1> QED
  BY <1>4, <1>5 DEF IndexInv

\* A row is written or deleted, and its entry with it, while nobody rebuilds the index.
LEMMA EntryKeeps ==
    ASSUME UpgradeTypeOK, IndexInv, NEW p \in Proc, Opening!Changes(p), NEW c \in Entry,
           NEW n \in Nat, index' = index \/ index' = [index EXCEPT !.entries[c] = n],
           index.entries = Opening!Once(Opening!Rows) => index'.entries = Opening!Once(Opening!Rows)'
    PROVE  IndexInv' /\ index' \in [tokenizer : Tokenizer, entries : [Entry -> Nat]]
<1>1. index' \in [tokenizer : Tokenizer, entries : [Entry -> Nat]]
  <2>1. PICK entries \in [Entry -> Nat] : index' = index \/ index' = [index EXCEPT !.entries = entries]
    <3>1. [index.entries EXCEPT ![c] = n] \in [Entry -> Nat]
      BY DEF UpgradeTypeOK
    <3> QED
      BY <3>1 DEF UpgradeTypeOK
  <2> QED
    BY <2>1 DEF UpgradeTypeOK
<1>2. ASSUME ~ shaken'
      PROVE  Opening!Rebuilding' = {} /\ index'.entries = Opening!Once(Opening!Rows)'
  <2>1. ~ shaken /\ Opening!Rebuilding = {} /\ opener' = opener
    BY <1>2 DEF Opening!Changes
  <2> QED
    BY <2>1 DEF IndexInv, Opening!Rebuilding
<1> QED
  BY <1>1, <1>2 DEF IndexInv

LEMMA UpgradeMoves ==
    ASSUME UpgradeInv, NEW p \in Proc, NEW step, Opening!Go(p, step),
           step \in {"idle", "schema", "links", "columns", "fill", "point", "failed"} \cup Late,
           step \notin {"create", "reindex"}, opener[p] \notin {"create", "reindex"},
           UNCHANGED <<rows, pointer, events, first>>,
           step \in Late => opener[p] \in Late,
           step \in Late \cup {"point"} => opener[p] \in Late \cup {"point"},
           index' = index \/ index' = [index EXCEPT !.tokenizer = "trigram"],
           \/ shaken' = shaken /\ opener[p] # "idle"
           \/ shaken' = (shaken \/ Opening!Rebuilding # {})
    PROVE  UpgradeInv'
<1>1. index' \in [tokenizer : Tokenizer, entries : [Entry -> Nat]] /\ index'.entries = index.entries
  BY DEF UpgradeInv, UpgradeTypeOK, Tokenizer
<1>2. SourcedInv'
  BY SourcedMoves DEF UpgradeInv
<1>3. IndexInv'
  BY <1>1, IndexMoves DEF UpgradeInv
<1>4. UpgradeTypeOK'
  BY <1>1, OpenerGoes DEF UpgradeInv, UpgradeTypeOK
<1> QED
  BY <1>2, <1>3, <1>4 DEF UpgradeInv

LEMMA InitKeeps ==
    ASSUME UpgradeInv, NEW p \in Proc, Opening!Init(p)
    PROVE  UpgradeInv'
<1> USE DEF Opening!At
<1> DEFINE Steps == {"idle", "schema", "links", "columns", "fill", "point", "failed"} \cup Late
<1>1. CASE Opening!StartOpen(p)
  <2>1. /\ Opening!Go(p, "schema") /\ opener[p] = "idle" /\ index' = index
        /\ shaken' = (shaken \/ Opening!Rebuilding # {})
        /\ UNCHANGED <<rows, pointer, events, first>>
    BY <1>1 DEF Opening!StartOpen, Opening!tables
  <2> QED
    BY <2>1, UpgradeMoves DEF Late
<1>2. CASE Opening!Schema(p)
  <2>1. PICK step \in {"links", "failed"} : Opening!Go(p, step)
    BY <1>2 DEF Opening!Schema, Opening!After
  <2>2. /\ opener[p] = "schema" /\ UNCHANGED <<rows, pointer, events, first, shaken>>
        /\ index' = index \/ index' = [index EXCEPT !.tokenizer = "trigram"]
    BY <1>2 DEF Opening!Schema
  <2> QED
    BY <2>1, <2>2, UpgradeMoves DEF Late
<1>3. CASE Opening!MigrateLinks(p)
  <2>1. /\ Opening!Go(p, "columns") /\ opener[p] = "links" /\ index' = index
        /\ UNCHANGED <<rows, pointer, events, first, shaken>>
    BY <1>3 DEF Opening!MigrateLinks, Opening!tables, Opening!After
  <2> QED
    BY <2>1, UpgradeMoves DEF Late
<1>4. CASE Opening!AddColumn(p)
  <2>1. /\ opener[p] = "columns" /\ index' = index
        /\ UNCHANGED <<rows, pointer, events, first, shaken>>
        /\ Opening!Go(p, "fill") \/ opener' = opener
    BY <1>4 DEF Opening!AddColumn, Opening!After
  <2>2. CASE Opening!Go(p, "fill")
    BY <2>1, <2>2, UpgradeMoves DEF Late
  <2>3. CASE opener' = opener
    BY <2>1, <2>3 DEF UpgradeInv, UpgradeTypeOK, SourcedInv, IndexInv, Opening!Rows, Reached,
                      Opening!Rebuilding, Opening!Once
  <2> QED
    BY <2>1, <2>2, <2>3
<1>5. ASSUME UpgradeTypeOK', SourcedInv', NEW step, Opening!Go(p, step),
             step \notin {"create", "reindex"}, opener[p] \notin {"create", "reindex", "idle"},
             UNCHANGED <<rows, index, shaken>>
      PROVE  UpgradeInv'
  BY <1>5, IndexMoves DEF UpgradeInv
<1>6. CASE Opening!FillEvents(p)
  <2>1. SourcedInv' /\ events' \in [Entry -> Value] /\ first' = first
    BY <1>6, FillKeeps DEF UpgradeInv
  <2>2. /\ Opening!Go(p, "point") /\ opener[p] = "fill"
        /\ UNCHANGED <<rows, pointer, index, shaken>>
    BY <1>6 DEF Opening!FillEvents, Opening!After
  <2>3. UpgradeTypeOK'
    BY <2>1, <2>2, OpenerGoes DEF UpgradeInv, UpgradeTypeOK
  <2> QED
    BY <1>5, <2>1, <2>2, <2>3
<1>7. CASE Opening!SetPointers(p)
  <2>1. SourcedInv' /\ pointer' \subseteq Entry
    BY <1>7, PointKeeps DEF UpgradeInv
  <2>2. /\ Opening!Go(p, "eventColumns") /\ opener[p] = "point"
        /\ UNCHANGED <<rows, events, first, index, shaken>>
    BY <1>7 DEF Opening!SetPointers, Opening!After
  <2>3. UpgradeTypeOK'
    BY <2>1, <2>2, OpenerGoes DEF UpgradeInv, UpgradeTypeOK, Late
  <2> QED
    BY <1>5, <2>1, <2>2, <2>3
<1>8. CASE Opening!AddEventColumns(p)
  <2>1. /\ Opening!Go(p, "provenance") /\ opener[p] = "eventColumns" /\ index' = index
        /\ UNCHANGED <<rows, pointer, events, first, shaken>>
    BY <1>8 DEF Opening!AddEventColumns, Opening!After
  <2> QED
    BY <2>1, UpgradeMoves DEF Late
<1>9. CASE Opening!BackfillProvenance(p)
  <2>1. SourcedInv' /\ events' \in [Entry -> Value] /\ first' \in [Entry -> Value]
    BY <1>9, BackfillKeeps DEF UpgradeInv
  <2>2. /\ Opening!Go(p, "tokenizer") /\ opener[p] = "provenance"
        /\ UNCHANGED <<rows, pointer, index, shaken>>
    BY <1>9 DEF Opening!BackfillProvenance, Opening!After
  <2>3. UpgradeTypeOK'
    BY <2>1, <2>2, OpenerGoes DEF UpgradeInv, UpgradeTypeOK, Late
  <2> QED
    BY <1>5, <2>1, <2>2, <2>3
<1>10. ASSUME IndexInv', index' \in [tokenizer : Tokenizer, entries : [Entry -> Nat]],
              opener[p] \in {"tokenizer", "create", "reindex"}, NEW step \in Late,
              Opening!Go(p, step), UNCHANGED <<rows, pointer, events, first>>
       PROVE  UpgradeInv'
  <2>1. SourcedInv'
    BY <1>10, SourcedMoves DEF UpgradeInv, Late
  <2>2. UpgradeTypeOK'
    BY <1>10, OpenerGoes DEF UpgradeInv, UpgradeTypeOK
  <2> QED
    BY <1>10, <2>1, <2>2 DEF UpgradeInv
<1>11. CASE Opening!MigrateIndex(p)
  <2>1. IndexInv' /\ index' \in [tokenizer : Tokenizer, entries : [Entry -> Nat]]
    BY <1>11, MigrateKeeps DEF UpgradeInv
  <2>2. PICK step \in {"create", "open"} : Opening!Go(p, step)
    BY <1>11 DEF Opening!MigrateIndex
  <2>3. opener[p] = "tokenizer" /\ step \in Late /\ UNCHANGED <<rows, pointer, events, first>>
    BY <1>11 DEF Opening!MigrateIndex, Late
  <2> QED
    BY <1>10, <2>1, <2>2, <2>3
<1>12. CASE Opening!CreateIndex(p)
  <2>1. IndexInv' /\ index' \in [tokenizer : Tokenizer, entries : [Entry -> Nat]]
    BY <1>12, CreateKeeps DEF UpgradeInv
  <2>2. /\ opener[p] = "create" /\ Opening!Go(p, "reindex") /\ "reindex" \in Late
        /\ UNCHANGED <<rows, pointer, events, first>>
    BY <1>12 DEF Opening!CreateIndex, Opening!After, Late
  <2> QED
    BY <1>10, <2>1, <2>2
<1>13. CASE Opening!Reindex(p)
  <2>1. IndexInv' /\ index' \in [tokenizer : Tokenizer, entries : [Entry -> Nat]]
    BY <1>13, ReindexKeeps DEF UpgradeInv
  <2>2. /\ opener[p] = "reindex" /\ Opening!Go(p, "open") /\ "open" \in Late
        /\ UNCHANGED <<rows, pointer, events, first>>
    BY <1>13 DEF Opening!Reindex, Opening!After, Late
  <2> QED
    BY <1>10, <2>1, <2>2
<1> QED
  BY <1>1, <1>2, <1>3, <1>4, <1>6, <1>7, <1>8, <1>9, <1>11, <1>12, <1>13 DEF Opening!Init

\* The next of an entry's rows in the index.
LEMMA OneMore ==
    ASSUME index.entries \in [Entry -> Nat], NEW c \in Entry
    PROVE  \E n \in Nat : n = index.entries[c] + 1 /\ (index.entries[c] = 0 => n = 1)
OBVIOUS

LEMMA UpgradeStep ==
    ASSUME UpgradeInv, Opening!UpgradeNext
    PROVE  UpgradeInv'
<1>1. PICK p \in Proc :
        \/ Opening!Init(p) \/ Opening!Close(p) \/ Opening!Kill(p)
        \/ \E c \in Entry : Opening!Delete(p, c) \/ \E o \in {""} \cup Origin : Opening!Write(p, c, o)
  BY DEF Opening!UpgradeNext
<1>2. CASE Opening!Init(p)
  BY <1>2, InitKeeps
<1>3. CASE Opening!Close(p)
  <2>1. /\ Opening!Go(p, "idle") /\ opener[p] \in {"open", "failed"}
        /\ UNCHANGED <<rows, pointer, events, first, index, shaken>>
    BY <1>3 DEF Opening!Close, Opening!tables
  <2> QED
    BY <2>1, UpgradeMoves DEF Late
<1>4. CASE Opening!Kill(p)
  <2>1. /\ Opening!Go(p, "idle") /\ opener[p] # "idle"
        /\ UNCHANGED <<rows, pointer, events, first, index>>
        /\ shaken' = (shaken \/ p \in Opening!Rebuilding)
    BY <1>4 DEF Opening!Kill, Opening!tables
  <2>2. SourcedInv' /\ UpgradeTypeOK'
    BY <2>1, SourcedMoves, OpenerGoes DEF UpgradeInv, UpgradeTypeOK, Late
  <2>3. ASSUME ~ shaken'
        PROVE  Opening!Rebuilding' = {} /\ index'.entries = Opening!Once(Opening!Rows)'
    <3>1. ~ shaken /\ p \notin Opening!Rebuilding
      BY <2>1, <2>3
    <3>2. opener[p] \notin {"create", "reindex"}
      BY <3>1 DEF Opening!Rebuilding
    <3>3. Opening!Rebuilding = {} /\ index.entries = Opening!Once(Opening!Rows)
      BY <2>1, <3>1, <3>2, AtWork DEF UpgradeInv
    <3>4. Opening!Rebuilding' = {}
      BY <2>1, <3>3, RebuildingGoes DEF UpgradeInv
    <3>5. Opening!Rows' = Opening!Rows
      BY <2>1 DEF Opening!Rows
    <3> QED
      BY <2>1, <3>3, <3>4, <3>5 DEF Opening!Once
  <2> QED
    BY <2>2, <2>3 DEF UpgradeInv, IndexInv
<1>5. ASSUME NEW c \in Entry, NEW o \in {""} \cup Origin, Opening!Write(p, c, o)
      PROVE  UpgradeInv'
  <2>1. /\ SourcedInv' /\ events' \in [Entry -> Value] /\ first' \in [Entry -> Value]
        /\ rows' \in [Entry -> Value] /\ pointer' \subseteq Entry
        /\ Opening!Rows' = Opening!Rows \cup {c}
    BY <1>5, WriteKeeps DEF UpgradeInv
  <2>2. index.entries \in [Entry -> Nat]
    BY DEF UpgradeInv, UpgradeTypeOK
  <2>3. PICK n \in Nat : n = index.entries[c] + 1 /\ (index.entries[c] = 0 => n = 1)
    BY <2>2, OneMore
  <2>4. /\ Opening!Changes(p)
        /\ IF c \in Opening!Rows THEN index' = index ELSE index' = [index EXCEPT !.entries[c] = n]
    BY <1>5, <2>3 DEF Opening!Write
  <2>5. ASSUME index.entries = Opening!Once(Opening!Rows)
        PROVE  index'.entries = Opening!Once(Opening!Rows)'
    <3>1. CASE c \in Opening!Rows
      BY <2>1, <2>4, <2>5, <3>1 DEF Opening!Once
    <3>2. CASE c \notin Opening!Rows
      <4>1. index.entries[c] = 0
        BY <2>5, <3>2 DEF Opening!Once
      <4>2. n = 1
        BY <2>3, <4>1
      <4>3. index'.entries = [index.entries EXCEPT ![c] = 1]
        BY <2>4, <3>2, <4>2 DEF UpgradeInv, UpgradeTypeOK
      <4> QED
        BY <2>1, <2>5, <4>3 DEF Opening!Once
    <3> QED
      BY <3>1, <3>2
  <2>6. IndexInv' /\ index' \in [tokenizer : Tokenizer, entries : [Entry -> Nat]]
    BY <2>4, <2>5, EntryKeeps DEF UpgradeInv
  <2>7. opener' = opener
    BY <2>4 DEF Opening!Changes
  <2> QED
    BY <2>1, <2>6, <2>7 DEF UpgradeInv, UpgradeTypeOK
<1>6. ASSUME NEW c \in Entry, Opening!Delete(p, c)
      PROVE  UpgradeInv'
  <2>1. /\ SourcedInv' /\ rows' \in [Entry -> Value] /\ pointer' \subseteq Entry
        /\ Opening!Rows' = Opening!Rows \ {c}
    BY <1>6, DeleteKeeps DEF UpgradeInv
  <2>2. /\ Opening!Changes(p) /\ index' = [index EXCEPT !.entries[c] = 0]
        /\ UNCHANGED <<events, first>>
    BY <1>6 DEF Opening!Delete
  <2>3. ASSUME index.entries = Opening!Once(Opening!Rows)
        PROVE  index'.entries = Opening!Once(Opening!Rows)'
    <3>1. index'.entries = [index.entries EXCEPT ![c] = 0]
      BY <2>2 DEF UpgradeInv, UpgradeTypeOK
    <3> QED
      BY <2>1, <2>3, <3>1 DEF Opening!Once
  <2>4. IndexInv' /\ index' \in [tokenizer : Tokenizer, entries : [Entry -> Nat]]
    BY <2>2, <2>3, EntryKeeps DEF UpgradeInv
  <2>5. opener' = opener
    BY <2>2 DEF Opening!Changes
  <2> QED
    BY <2>1, <2>2, <2>4, <2>5 DEF UpgradeInv, UpgradeTypeOK
<1> QED
  BY <1>1, <1>2, <1>3, <1>4, <1>5, <1>6

LEMMA UpgradeBegins == Opening!UpgradeInit => UpgradeInv
<1> SUFFICES ASSUME Opening!UpgradeInit
             PROVE  UpgradeInv
  OBVIOUS
<1>1. PICK v \in Vintage :
        /\ rows \in [Entry -> {Opening!NoRow, ""} \cup (IF "session_id" \in v.cols THEN Origin ELSE {})]
        /\ pointer = IF v.sourced THEN Opening!Rows ELSE {}
        /\ events = [c \in Entry |-> IF c \notin pointer THEN Opening!NoRow
                                     ELSE IF v.provenance THEN rows[c] ELSE ""]
        /\ index = [tokenizer |-> v.tokenizer, entries |-> Opening!Once(Opening!Rows)]
  BY DEF Opening!UpgradeInit
<1>2. opener = [p \in Proc |-> "idle"] /\ first = events
  BY DEF Opening!UpgradeInit
<1>3. rows \in [Entry -> Value] /\ pointer \subseteq Entry /\ events \in [Entry -> Value]
  <2>1. rows \in [Entry -> Value]
    BY <1>1 DEF Value
  <2>2. \A c \in Entry : rows[c] \in Value /\ Opening!NoRow \in Value /\ "" \in Value
    BY <2>1 DEF Value
  <2> QED
    BY <1>1, <2>1, <2>2 DEF Opening!Rows
<1>4. index \in [tokenizer : Tokenizer, entries : [Entry -> Nat]]
  <2>1. Opening!Once(Opening!Rows) \in [Entry -> Nat] /\ v.tokenizer \in Tokenizer
    BY DEF Opening!Once, Tokenizer
  <2> QED
    BY <1>1, <2>1
<1>5. Opening!Rebuilding = {} /\ ~ Reached(Late) /\ ~ Reached(Late \cup {"point"})
  BY <1>2 DEF Opening!Rebuilding, Reached, Late
<1>6. \A c \in pointer : events[c] # Opening!NoRow
  BY <1>1, <1>3 DEF Opening!Rows, Opening!NoRow
<1> QED
  BY <1>1, <1>2, <1>3, <1>4, <1>5, <1>6 DEF UpgradeInv, UpgradeTypeOK, SourcedInv, IndexInv

LEMMA UpgradeUnchanged ==
    ASSUME UpgradeInv, UNCHANGED databaseVars
    PROVE  UpgradeInv'
BY DEF databaseVars, UpgradeInv, UpgradeTypeOK, SourcedInv, IndexInv, Reached, Opening!Rows,
       Opening!Rebuilding, Opening!Once

-----------------------------------------------------------------------------
(* Rebuild *)

\* The tables of a rebuild that runs alone, place by place.
WipedTables == {"memories", "tags", "links", "memories_fts", "entity_mentions"}
RemadeFromLog ==
    /\ Derived!Rows = Derived!ToSet(log) \ Noise
    /\ \A c \in Derived!Rows : mem[c] = "inbox"
    /\ mentioned = {}
RebuildPlace ==
    WipedTables
    \cup {"idle", "replay", "create", "fill", "wipe derived links", "list", "link",
          "tag", "done"}
RebuildWork ==
    [step : RebuildPlace, mode : {"", "full", "indexes"}, clean : BOOLEAN, todo : Seq(Page),
     rows : SUBSET Page]

RebuildType ==
    /\ log \in Seq(Page) /\ mem \in [Page -> {"none", "inbox", "settled"}]
    /\ rebuild \in RebuildWork

\* What is still to be replayed are events of the log, and the others are rows unless they
\* are noise.
ReplayingInv ==
    /\ rebuild.mode = "full" /\ links = {}
    /\ indexed = Derived!Once(Derived!Rows) /\ Derived!Rows \subseteq tagged
    /\ mentioned = {} /\ \A c \in Derived!Rows : mem[c] = "inbox"
    /\ Derived!ToSet(rebuild.todo) \subseteq Derived!ToSet(log)
    /\ Derived!Rows \cup (Derived!ToSet(rebuild.todo) \ Noise) = Derived!ToSet(log) \ Noise

WipedInv ==
    /\ rebuild.step \in WipedTables => rebuild.mode = "full" /\ rebuild.todo = log
    /\ rebuild.step \in WipedTables \ {"memories"} => Derived!Rows = {}
    /\ rebuild.step \in {"memories_fts", "entity_mentions"} => links = {}
    /\ rebuild.step = "entity_mentions" => indexed = Derived!Once({})

IndexedInv ==
    /\ rebuild.step \in {"create", "fill", "wipe derived links"} => rebuild.mode = "indexes"
    /\ rebuild.step = "create" => indexed = Derived!Dropped
    /\ rebuild.step = "fill" => indexed = Derived!Once({})
    /\ rebuild.step = "wipe derived links" => indexed = Derived!Once(Derived!Rows)

LinkingInv ==
    /\ rebuild.step \in {"list", "link", "tag", "done"} =>
         /\ indexed = Derived!Once(Derived!Rows)
         /\ rebuild.mode = "full" => RemadeFromLog /\ Derived!Rows \subseteq tagged
    /\ rebuild.step = "list" => links = {}
    /\ rebuild.step = "link" =>
         rebuild.rows = Derived!Rows /\ links \subseteq Derived!Backlinks(Derived!Rows)
    /\ rebuild.step \in {"tag", "done"} => links = Derived!Backlinks(Derived!Rows)
    /\ rebuild.step = "done" => Derived!Rows \subseteq tagged

RebuildInv ==
    /\ RebuildType
    /\ rebuild.clean => /\ WipedInv /\ IndexedInv /\ LinkingInv
                        /\ rebuild.step = "replay" => ReplayingInv
    /\ fresh # "" => rebuild.step = "idle"
    /\ Derived!RebuildRestores

LEMMA EventsOf ==
    ASSUME NEW s \in Seq(Page), s # <<>>
    PROVE  /\ Head(s) \in Derived!ToSet(s) /\ Head(s) \in Page /\ Tail(s) \in Seq(Page)
           /\ Derived!ToSet(s) = {Head(s)} \cup Derived!ToSet(Tail(s))
<1>1. Len(s) \in Nat \ {0} /\ Head(s) = s[1] /\ DOMAIN s = 1 .. Len(s)
  BY EmptySeq
<1>2. Tail(s) \in Seq(Page) /\ Len(Tail(s)) = Len(s) - 1 /\ DOMAIN Tail(s) = 1 .. Len(s) - 1
      /\ \A i \in 1 .. Len(s) - 1 : Tail(s)[i] = s[i + 1]
  BY <1>1
<1>3. Derived!ToSet(s) \subseteq {Head(s)} \cup Derived!ToSet(Tail(s))
  <2> SUFFICES ASSUME NEW i \in 1 .. Len(s), i # 1
               PROVE  s[i] \in Derived!ToSet(Tail(s))
    BY <1>1 DEF Derived!ToSet
  <2>1. i - 1 \in 1 .. Len(s) - 1 /\ Tail(s)[i - 1] = s[i]
    BY <1>1, <1>2
  <2> QED
    BY <1>2, <2>1 DEF Derived!ToSet
<1>4. Derived!ToSet(Tail(s)) \subseteq Derived!ToSet(s)
  <2> SUFFICES ASSUME NEW i \in 1 .. Len(s) - 1
               PROVE  Tail(s)[i] \in Derived!ToSet(s)
    BY <1>2 DEF Derived!ToSet
  <2>1. i + 1 \in 1 .. Len(s) /\ Tail(s)[i] = s[i + 1]
    BY <1>1, <1>2
  <2> QED
    BY <1>1, <2>1 DEF Derived!ToSet
<1>5. Head(s) \in Derived!ToSet(s) /\ Head(s) \in Page
  BY <1>1 DEF Derived!ToSet
<1> QED
  BY <1>2, <1>3, <1>4, <1>5

LEMMA NoEvents == Derived!ToSet(<<>>) = {}
BY DEF Derived!ToSet

LEMMA Logged ==
    ASSUME NEW s \in Seq(Page), NEW c \in Derived!ToSet(s)
    PROVE  Derived!Contains(s, c)
BY DEF Derived!ToSet, Derived!Contains

\* One entry more, for a row that is new.
LEMMA OnceMore ==
    ASSUME NEW R, NEW c \in Page, c \notin R, NEW f, f = Derived!Once(R)
    PROVE  [f EXCEPT ![c] = @ + 1] = Derived!Once(R \cup {c})
<1>1. f[c] = 0
  BY DEF Derived!Once
<1>2. f[c] + 1 = 1
  BY <1>1
<1> QED
  BY <1>2 DEF Derived!Once

LEMMA FilledOnce ==
    ASSUME NEW R, NEW f, f = Derived!Once({})
    PROVE  [c \in Page |-> f[c] + Derived!Once(R)[c]] = Derived!Once(R)
<1>1. ASSUME NEW c \in Page
      PROVE  f[c] + Derived!Once(R)[c] = IF c \in R THEN 1 ELSE 0
  <2>1. f[c] = 0
    BY DEF Derived!Once
  <2>2. Derived!Once(R)[c] = IF c \in R THEN 1 ELSE 0
    BY DEF Derived!Once
  <2> QED
    BY <2>1, <2>2
<1> QED
  BY <1>1 DEF Derived!Once

LEMMA WipeOrder ==
    /\ DOMAIN Derived!AfterWipe = WipedTables
    /\ \A step \in WipedTables : Derived!AfterWipe[step] \in RebuildPlace
<1>1. DOMAIN Derived!AfterWipe = WipedTables
  BY DEF Derived!AfterWipe, WipedTables
<1>2. /\ Derived!AfterWipe.memories = "tags" /\ Derived!AfterWipe.tags = "links"
      /\ Derived!AfterWipe.links = "memories_fts"
      /\ Derived!AfterWipe.memories_fts = "entity_mentions"
      /\ Derived!AfterWipe.entity_mentions = "replay"
  BY DEF Derived!AfterWipe
<1> QED
  BY <1>1, <1>2 DEF WipedTables, RebuildPlace

LEMMA WorkGoes ==
    ASSUME rebuild \in RebuildWork, NEW step \in RebuildPlace, Derived!Go(step)
    PROVE  /\ rebuild' \in RebuildWork /\ rebuild'.step = step /\ rebuild'.mode = rebuild.mode
           /\ rebuild'.clean = rebuild.clean /\ rebuild'.todo = rebuild.todo
           /\ rebuild'.rows = rebuild.rows
BY DEF RebuildWork, RebuildPlace, Derived!Go

\* What is not made by a rebuild alone is promised nothing.
LEMMA NothingPromised ==
    ASSUME log' \in Seq(Page), mem' \in [Page -> {"none", "inbox", "settled"}],
           rebuild' \in RebuildWork, ~ rebuild'.clean \/ rebuild'.step = "idle", fresh' = ""
    PROVE  RebuildInv'
BY DEF RebuildInv, RebuildType, WipedInv, IndexedInv, LinkingInv, Derived!RebuildRestores, WipedTables

LEMMA InsertedType ==
    ASSUME RebuildType, NEW c \in Page, Derived!Inserted(c)
    PROVE  log' \in Seq(Page) /\ mem' \in [Page -> {"none", "inbox", "settled"}]
<1>1. log' \in Seq(Page)
  BY DEF RebuildType, Derived!Inserted
<1>2. mem' \in [Page -> {"none", "inbox", "settled"}]
  BY DEF RebuildType, Derived!Inserted
<1> QED
  BY <1>1, <1>2

LEMMA OthersKeep ==
    ASSUME RebuildInv,
           \/ Derived!WipeFails \/ Derived!Kill \/ Derived!Open
           \/ \E c \in Page :
                \/ Derived!IngestMemory(c) \/ Derived!Settle(c)
                \/ Derived!RecordMention(c) \/ Derived!Delete(c)
           \/ \E c, d \in Page : c # d /\ Derived!LinkMemories(c, d)
    PROVE  RebuildInv'
<1>1. rebuild \in RebuildWork /\ RebuildType
  BY DEF RebuildInv, RebuildType
<1>2. ASSUME Derived!Others
      PROVE  rebuild' \in RebuildWork /\ (~ rebuild'.clean \/ rebuild'.step = "idle") /\ fresh' = ""
  <2>1. PICK quiet \in BOOLEAN : quiet = Derived!At("idle")
    BY DEF Derived!At
  <2>2. rebuild' = [rebuild EXCEPT !.clean = quiet]
    BY <1>2, <2>1 DEF Derived!Others
  <2>3. rebuild' \in RebuildWork /\ rebuild'.clean = quiet /\ rebuild'.step = rebuild.step
    BY <1>1, <2>2 DEF RebuildWork
  <2> QED
    BY <1>2, <2>1, <2>3 DEF Derived!Others, Derived!At
<1>3. CASE Derived!WipeFails
  <2>1. rebuild.step \in WipedTables /\ Derived!AfterWipe[rebuild.step] \in RebuildPlace
    BY <1>3, WipeOrder DEF Derived!WipeFails
  <2>2. PICK step \in RebuildPlace : step = Derived!AfterWipe[rebuild.step]
    BY <2>1
  <2>3. rebuild' = [rebuild EXCEPT !.step = step, !.clean = FALSE]
    BY <1>3, <2>2 DEF Derived!WipeFails
  <2>4. rebuild' \in RebuildWork /\ ~ rebuild'.clean
    BY <1>1, <2>3 DEF RebuildWork, RebuildPlace
  <2>5. fresh' = ""
    BY <1>3, <2>1 DEF Derived!WipeFails, RebuildInv, WipedTables
  <2> QED
    BY <1>1, <1>3, <2>4, <2>5, NothingPromised DEF Derived!WipeFails, Derived!tables, RebuildType
<1>4. CASE Derived!Kill
  <2>1. Derived!Idle \in RebuildWork /\ Derived!Idle.step = "idle"
    BY DEF Derived!Idle, RebuildWork, RebuildPlace
  <2>2. rebuild' = Derived!Idle /\ fresh' = "" /\ log' = log /\ mem' = mem
    BY <1>4 DEF Derived!Kill, Derived!tables, RebuildInv, Derived!At
  <2> QED
    BY <1>1, <2>1, <2>2, NothingPromised DEF RebuildType
<1>5. CASE Derived!Open \/ \E c, d \in Page : c # d /\ Derived!LinkMemories(c, d)
  <2>1. Derived!Others /\ log' = log /\ mem' = mem
    BY <1>5 DEF Derived!Open, Derived!LinkMemories
  <2> QED
    BY <1>1, <1>2, <2>1, NothingPromised DEF RebuildType
<1>6. ASSUME NEW c \in Page, Derived!IngestMemory(c)
      PROVE  RebuildInv'
  BY <1>1, <1>2, <1>6, InsertedType, NothingPromised DEF Derived!IngestMemory
<1>7. ASSUME NEW c \in Page, Derived!Settle(c) \/ Derived!RecordMention(c) \/ Derived!Delete(c)
      PROVE  RebuildInv'
  <2>1. Derived!Others /\ log' = log /\ mem' \in [Page -> {"none", "inbox", "settled"}]
    BY <1>1, <1>7 DEF Derived!Settle, Derived!RecordMention, Derived!Delete, RebuildType
  <2> QED
    BY <1>1, <1>2, <2>1, NothingPromised DEF RebuildType
<1> QED
  BY <1>3, <1>4, <1>5, <1>6, <1>7

LEMMA IdleWork == Derived!Idle \in RebuildWork /\ Derived!Idle.step = "idle"
BY DEF Derived!Idle, RebuildWork, RebuildPlace

LEMMA RebuildAdvances ==
    ASSUME log' \in Seq(Page), mem' \in [Page -> {"none", "inbox", "settled"}],
           rebuild' \in RebuildWork, fresh' = "",
           rebuild'.clean =>
               WipedInv' /\ IndexedInv' /\ LinkingInv' /\ (rebuild'.step = "replay" => ReplayingInv')
    PROVE  RebuildInv'
BY DEF RebuildInv, RebuildType, Derived!RebuildRestores

LEMMA ListEventsKeeps ==
    ASSUME RebuildInv, Derived!ListRawEntries
    PROVE  RebuildInv'
<1>1. log \in Seq(Page) /\ log' = log /\ mem' = mem /\ fresh' = ""
  BY DEF RebuildInv, RebuildType, Derived!ListRawEntries, Derived!tables
<1>2. PICK w : w = [Derived!Idle EXCEPT !.step = "memories", !.mode = "full", !.todo = log]
  OBVIOUS
<1>3. rebuild' = w
  BY <1>2 DEF Derived!ListRawEntries
<1>4. w \in RebuildWork /\ w.step = "memories" /\ w.mode = "full" /\ w.todo = log
  BY <1>1, <1>2, IdleWork DEF RebuildWork, RebuildPlace, WipedTables
<1>5. WipedInv' /\ IndexedInv' /\ LinkingInv'
  BY <1>1, <1>3, <1>4 DEF WipedInv, IndexedInv, LinkingInv
<1> QED
  BY <1>1, <1>3, <1>4, <1>5, RebuildAdvances DEF RebuildInv, RebuildType

LEMMA WipeKeeps ==
    ASSUME RebuildInv, Derived!Wipe
    PROVE  RebuildInv'
<1>1. rebuild \in RebuildWork /\ log \in Seq(Page) /\ mem \in [Page -> {"none", "inbox", "settled"}]
  BY DEF RebuildInv, RebuildType
<1>2. rebuild.step \in WipedTables /\ log' = log /\ fresh' = fresh /\ fresh = ""
  BY DEF Derived!Wipe, Derived!At, WipedTables, RebuildInv
<1>3. /\ Derived!AfterWipe.memories = "tags" /\ Derived!AfterWipe.tags = "links"
      /\ Derived!AfterWipe.links = "memories_fts"
      /\ Derived!AfterWipe.memories_fts = "entity_mentions"
      /\ Derived!AfterWipe.entity_mentions = "replay"
  BY DEF Derived!AfterWipe
<1>4. PICK step \in RebuildPlace : Derived!Go(step) /\ step = Derived!AfterWipe[rebuild.step]
  BY <1>2, <1>3 DEF Derived!Wipe, Derived!At, RebuildPlace, WipedTables
<1>5. /\ rebuild' \in RebuildWork /\ rebuild'.step = step /\ rebuild'.mode = rebuild.mode
      /\ rebuild'.clean = rebuild.clean /\ rebuild'.todo = rebuild.todo
  BY <1>1, <1>4, WorkGoes
<1>6. ASSUME rebuild.clean
      PROVE  WipedInv /\ IndexedInv /\ LinkingInv
  BY <1>6 DEF RebuildInv
<1>7. CASE Derived!At("memories")
  <2>1. step = "tags" /\ rebuild.step = "memories"
    BY <1>3, <1>4, <1>7 DEF Derived!At
  <2>2. mem' = [c \in Page |-> "none"]
    BY <2>1 DEF Derived!Wipe, Derived!At
  <2>3. Derived!Rows' = {} /\ mem' \in [Page -> {"none", "inbox", "settled"}]
    BY <2>2 DEF Derived!Rows
  <2>4. ASSUME rebuild.clean
        PROVE  WipedInv' /\ IndexedInv' /\ LinkingInv'
    BY <1>2, <1>5, <1>6, <2>1, <2>3, <2>4 DEF WipedInv, IndexedInv, LinkingInv, WipedTables
  <2> QED
    BY <1>1, <1>2, <1>5, <2>1, <2>3, <2>4, RebuildAdvances
<1>8. CASE rebuild.step \in {"tags", "links", "memories_fts"}
  <2>1. mem' = mem
    BY <1>8 DEF Derived!Wipe, Derived!At
  <2>2. Derived!Rows' = Derived!Rows
    BY <2>1 DEF Derived!Rows
  <2>3. ASSUME rebuild.clean
        PROVE  WipedInv' /\ IndexedInv' /\ LinkingInv'
    <3>1. Derived!Rows = {} /\ rebuild.mode = "full" /\ rebuild.todo = log
      BY <1>6, <1>8, <2>3 DEF WipedInv, WipedTables
    <3>2. CASE rebuild.step = "tags"
      BY <1>2, <1>3, <1>4, <1>5, <2>2, <3>1, <3>2 DEF WipedInv, IndexedInv, LinkingInv, WipedTables
    <3>3. CASE rebuild.step = "links"
      <4>1. step = "memories_fts" /\ links' = {}
        BY <1>3, <1>4, <3>3 DEF Derived!Wipe, Derived!At
      <4> QED
        BY <1>2, <1>5, <2>2, <3>1, <4>1 DEF WipedInv, IndexedInv, LinkingInv, WipedTables
    <3>4. CASE rebuild.step = "memories_fts"
      <4>1. step = "entity_mentions" /\ indexed' = Derived!Once({}) /\ links' = links
        BY <1>3, <1>4, <3>4 DEF Derived!Wipe, Derived!At
      <4>2. links = {} /\ Derived!Once({})' = Derived!Once({})
        BY <1>6, <2>3, <3>4 DEF WipedInv, Derived!Once
      <4> QED
        BY <1>2, <1>5, <2>2, <3>1, <4>1, <4>2 DEF WipedInv, IndexedInv, LinkingInv, WipedTables
    <3> QED
      BY <1>8, <3>2, <3>3, <3>4
  <2>4. rebuild'.step # "replay"
    BY <1>3, <1>4, <1>5, <1>8
  <2> QED
    BY <1>1, <1>2, <1>5, <2>1, <2>3, <2>4, RebuildAdvances
<1>9. CASE Derived!At("entity_mentions")
  <2>1. step = "replay" /\ rebuild.step = "entity_mentions"
    BY <1>3, <1>4, <1>9 DEF Derived!At
  <2>2. mem' = mem /\ links' = links /\ indexed' = indexed /\ mentioned' = {} /\ tagged' = tagged
    BY <2>1 DEF Derived!Wipe, Derived!At
  <2>3. Derived!Rows' = Derived!Rows
    BY <2>2 DEF Derived!Rows
  <2>4. ASSUME rebuild.clean
        PROVE  WipedInv' /\ IndexedInv' /\ LinkingInv' /\ ReplayingInv'
    <3>1. WipedInv' /\ IndexedInv' /\ LinkingInv'
      BY <1>5, <2>1 DEF WipedInv, IndexedInv, LinkingInv, WipedTables
    <3>2. rebuild.mode = "full" /\ rebuild.todo = log /\ Derived!Rows = {} /\ links = {}
          /\ indexed = Derived!Once({})
      BY <1>6, <2>1, <2>4 DEF WipedInv, WipedTables
    <3>3. Derived!Once(Derived!Rows)' = Derived!Once({})
      BY <2>3, <3>2 DEF Derived!Once
    <3> QED
      BY <1>2, <1>5, <2>2, <2>3, <3>1, <3>2, <3>3 DEF ReplayingInv
  <2> QED
    BY <1>1, <1>2, <1>5, <2>2, <2>4, RebuildAdvances
<1> QED
  BY <1>2, <1>7, <1>8, <1>9 DEF Derived!At, WipedTables

LEMMA ReplayKeeps ==
    ASSUME RebuildInv, Derived!Replay
    PROVE  RebuildInv'
<1>1. /\ rebuild \in RebuildWork /\ log \in Seq(Page) /\ RebuildType
      /\ mem \in [Page -> {"none", "inbox", "settled"}]
  BY DEF RebuildInv, RebuildType
<1>2. rebuild.step = "replay" /\ rebuild.todo # <<>> /\ rebuild.todo \in Seq(Page) /\ fresh' = ""
  BY <1>1 DEF Derived!Replay, Derived!At, RebuildInv, RebuildWork
<1>3. PICK c \in Page : c = Head(rebuild.todo)
  BY <1>2, EventsOf
<1>4. PICK rest \in Seq(Page) : rest = Tail(rebuild.todo)
  BY <1>2, EventsOf
<1>5. Derived!ToSet(rebuild.todo) = {c} \cup Derived!ToSet(rest) /\ c \in Derived!ToSet(rebuild.todo)
  BY <1>2, <1>3, <1>4, EventsOf
<1>6. rebuild' = [rebuild EXCEPT !.todo = rest]
  BY <1>4 DEF Derived!Replay
<1>7. /\ rebuild' \in RebuildWork /\ rebuild'.step = "replay" /\ rebuild'.mode = rebuild.mode
      /\ rebuild'.clean = rebuild.clean /\ rebuild'.todo = rest
  BY <1>1, <1>2, <1>6 DEF RebuildWork
<1>8. WipedInv' /\ IndexedInv' /\ LinkingInv'
  BY <1>7 DEF WipedInv, IndexedInv, LinkingInv, WipedTables
<1>9. CASE c \in Noise
  <2>1. UNCHANGED <<log, mem, tagged, links, indexed, mentioned>>
    BY <1>3, <1>9 DEF Derived!Replay, Derived!tables
  <2>2. ASSUME rebuild.clean
        PROVE  ReplayingInv'
    <3>1. ReplayingInv
      BY <1>2, <2>2 DEF RebuildInv
    <3>2. Derived!Rows' = Derived!Rows /\ Derived!Once(Derived!Rows)' = Derived!Once(Derived!Rows)
      BY <2>1 DEF Derived!Rows, Derived!Once
    <3> QED
      BY <1>5, <1>7, <1>9, <2>1, <3>1, <3>2 DEF ReplayingInv
  <2> QED
    BY <1>1, <1>2, <1>7, <1>8, <2>1, <2>2, RebuildAdvances
<1>10. CASE c \notin Noise
  <2>1. Derived!Inserted(c)
    BY <1>3, <1>10 DEF Derived!Replay
  <2>2. log' \in Seq(Page) /\ mem' \in [Page -> {"none", "inbox", "settled"}]
    BY <1>1, <2>1, InsertedType
  <2>3. ASSUME rebuild.clean
        PROVE  ReplayingInv'
    <3>1. ReplayingInv
      BY <1>2, <2>3 DEF RebuildInv
    <3>2. c \in Derived!ToSet(log)
      BY <1>5, <3>1 DEF ReplayingInv
    <3>3. log' = log /\ links' = links /\ mentioned' = mentioned /\ tagged' = tagged \cup {c}
      BY <1>1, <2>1, <3>2, Logged DEF Derived!Inserted
    <3>4. CASE c \in Derived!Rows
      <4>1. mem' = mem /\ indexed' = indexed
        BY <2>1, <3>4 DEF Derived!Inserted, Derived!Rows
      <4>2. Derived!Rows' = Derived!Rows /\ Derived!Once(Derived!Rows)' = Derived!Once(Derived!Rows)
        BY <4>1 DEF Derived!Rows, Derived!Once
      <4> QED
        BY <1>5, <1>7, <1>10, <3>1, <3>3, <3>4, <4>1, <4>2 DEF ReplayingInv
    <3>5. CASE c \notin Derived!Rows
      <4>1. mem' = [mem EXCEPT ![c] = "inbox"] /\ indexed' = [indexed EXCEPT ![c] = @ + 1]
        BY <2>1, <3>5 DEF Derived!Inserted, Derived!Rows
      <4>2. Derived!Rows' = Derived!Rows \cup {c} /\ \A d \in Derived!Rows' : mem'[d] = "inbox"
        BY <1>1, <3>1, <4>1 DEF Derived!Rows, ReplayingInv
      <4>3. indexed' = Derived!Once(Derived!Rows \cup {c})
        BY <3>1, <3>5, <4>1, OnceMore DEF ReplayingInv
      <4>4. Derived!Once(Derived!Rows)' = Derived!Once(Derived!Rows \cup {c})
        BY <4>2 DEF Derived!Once
      <4> QED
        BY <1>5, <1>7, <1>10, <3>1, <3>3, <4>2, <4>3, <4>4 DEF ReplayingInv
    <3> QED
      BY <3>4, <3>5
  <2> QED
    BY <1>2, <1>7, <1>8, <2>2, <2>3, RebuildAdvances
<1> QED
  BY <1>9, <1>10

\* The steps that only go on, or change links, the index or the tags.
LEMMA RebuildGoesOn ==
    ASSUME RebuildInv, rebuild.step # "idle", NEW step \in RebuildPlace, Derived!Go(step),
           step \notin WipedTables \cup {"replay"}, UNCHANGED <<log, mem, fresh>>,
           rebuild.clean => IndexedInv' /\ LinkingInv'
    PROVE  RebuildInv'
<1>1. rebuild \in RebuildWork /\ RebuildType /\ fresh' = ""
  BY DEF RebuildInv, RebuildType
<1>2. rebuild' \in RebuildWork /\ rebuild'.step = step /\ rebuild'.clean = rebuild.clean
  BY <1>1, WorkGoes
<1>3. WipedInv'
  BY <1>2 DEF WipedInv, WipedTables
<1> QED
  BY <1>1, <1>2, <1>3, RebuildAdvances DEF RebuildType, WipedTables

LEMMA ReplayedKeeps ==
    ASSUME RebuildInv, Derived!Replayed
    PROVE  RebuildInv'
<1>1. /\ rebuild.step = "replay" /\ Derived!Go("list") /\ rebuild.todo = <<>>
      /\ UNCHANGED <<log, mem, tagged, links, indexed, mentioned, fresh>>
  BY DEF Derived!Replayed, Derived!At, Derived!Quiet, Derived!tables
<1>2. "list" \in RebuildPlace /\ rebuild \in RebuildWork
  BY DEF RebuildPlace, RebuildInv, RebuildType
<1>3. rebuild'.step = "list" /\ rebuild'.mode = rebuild.mode
  BY <1>1, <1>2, WorkGoes
<1>4. ASSUME rebuild.clean
      PROVE  IndexedInv' /\ LinkingInv'
  <2>1. ReplayingInv /\ Derived!ToSet(rebuild.todo) = {}
    BY <1>1, <1>4, NoEvents DEF RebuildInv
  <2>2. Derived!Rows' = Derived!Rows /\ Derived!Once(Derived!Rows)' = Derived!Once(Derived!Rows)
    BY <1>1 DEF Derived!Rows, Derived!Once
  <2>3. /\ RemadeFromLog' /\ indexed' = Derived!Once(Derived!Rows)'
        /\ (Derived!Rows \subseteq tagged)' /\ links' = {}
    BY <1>1, <2>1, <2>2 DEF ReplayingInv, RemadeFromLog
  <2> QED
    BY <1>3, <2>3 DEF IndexedInv, LinkingInv
<1> QED
  BY <1>1, <1>2, <1>4, RebuildGoesOn DEF WipedTables

LEMMA DropKeeps ==
    ASSUME RebuildInv, Derived!DropIndex
    PROVE  RebuildInv'
<1>1. /\ log \in Seq(Page) /\ log' = log /\ mem' = mem /\ fresh' = "" /\ indexed' = Derived!Dropped
      /\ mem \in [Page -> {"none", "inbox", "settled"}]
  BY DEF RebuildInv, RebuildType, Derived!DropIndex
<1>2. PICK w : w = [Derived!Idle EXCEPT !.step = "create", !.mode = "indexes"]
  OBVIOUS
<1>3. rebuild' = w
  BY <1>2 DEF Derived!DropIndex
<1>4. w \in RebuildWork /\ w.step = "create" /\ w.mode = "indexes"
  BY <1>2, IdleWork DEF RebuildWork, RebuildPlace
<1>5. WipedInv' /\ IndexedInv' /\ LinkingInv'
  BY <1>1, <1>3, <1>4 DEF WipedInv, IndexedInv, LinkingInv, WipedTables, Derived!Dropped
<1> QED
  BY <1>1, <1>3, <1>4, <1>5, RebuildAdvances

LEMMA IndexKeeps ==
    ASSUME RebuildInv, Derived!CreateIndex \/ Derived!FillIndex \/ Derived!WipeLinks
    PROVE  RebuildInv'
<1>1. rebuild \in RebuildWork /\ (rebuild.clean => IndexedInv) /\ UNCHANGED <<log, mem, fresh>>
  BY DEF RebuildInv, RebuildType, Derived!CreateIndex, Derived!FillIndex, Derived!WipeLinks,
         Derived!Quiet
<1>2. PICK step \in {"fill", "wipe derived links", "list"} :
        /\ Derived!Go(step) /\ rebuild.step # "idle"
        /\ \/ Derived!CreateIndex /\ step = "fill"
           \/ Derived!FillIndex /\ step = "wipe derived links"
           \/ Derived!WipeLinks /\ step = "list"
  BY DEF Derived!CreateIndex, Derived!FillIndex, Derived!WipeLinks, Derived!At
<1>3. step \in RebuildPlace /\ rebuild'.step = step /\ rebuild'.mode = rebuild.mode
  BY <1>1, <1>2, WorkGoes DEF RebuildPlace
<1>4. /\ Derived!Rows' = Derived!Rows /\ Derived!Once(Derived!Rows)' = Derived!Once(Derived!Rows)
      /\ Derived!Once({})' = Derived!Once({})
  BY <1>1 DEF Derived!Rows, Derived!Once
<1>5. ASSUME rebuild.clean
      PROVE  IndexedInv' /\ LinkingInv'
  <2>1. CASE Derived!CreateIndex
    <3>1. rebuild.step = "create"
          /\ indexed' = IF indexed = Derived!Dropped THEN Derived!Once({}) ELSE indexed
      BY <2>1 DEF Derived!CreateIndex, Derived!At
    <3>2. step = "fill"
      BY <1>2, <2>1, <3>1 DEF Derived!FillIndex, Derived!WipeLinks, Derived!At
    <3>3. indexed' = Derived!Once({}) /\ rebuild.mode = "indexes"
      BY <1>1, <1>5, <3>1 DEF IndexedInv
    <3> QED
      BY <1>3, <1>4, <3>2, <3>3 DEF IndexedInv, LinkingInv
  <2>2. CASE Derived!FillIndex
    <3>1. rebuild.step = "fill"
          /\ indexed' = [c \in Page |-> indexed[c] + Derived!Once(Derived!Rows)[c]]
      BY <2>2 DEF Derived!FillIndex, Derived!At
    <3>2. step = "wipe derived links"
      BY <1>2, <2>2, <3>1 DEF Derived!CreateIndex, Derived!WipeLinks, Derived!At
    <3>3. indexed = Derived!Once({}) /\ rebuild.mode = "indexes"
      BY <1>1, <1>5, <3>1 DEF IndexedInv
    <3>5. indexed' = Derived!Once(Derived!Rows)
      BY <3>1, <3>3, FilledOnce
    <3> QED
      BY <1>3, <1>4, <3>2, <3>3, <3>5 DEF IndexedInv, LinkingInv
  <2>3. CASE Derived!WipeLinks
    <3>1. rebuild.step = "wipe derived links" /\ links' = {} /\ indexed' = indexed
      BY <2>3 DEF Derived!WipeLinks, Derived!At
    <3>2. step = "list"
      BY <1>2, <2>3, <3>1 DEF Derived!CreateIndex, Derived!FillIndex, Derived!At
    <3>3. indexed = Derived!Once(Derived!Rows) /\ rebuild.mode = "indexes"
      BY <1>1, <1>5, <3>1 DEF IndexedInv
    <3> QED
      BY <1>3, <1>4, <3>1, <3>2, <3>3 DEF IndexedInv, LinkingInv
  <2> QED
    BY <2>1, <2>2, <2>3
<1> QED
  BY <1>1, <1>2, <1>3, <1>5, RebuildGoesOn DEF WipedTables

\* What holds of the rows, the index and the tags from the listing on.
LEMMA RemadeStays ==
    ASSUME UNCHANGED <<log, mem, tagged, indexed, mentioned>>
    PROVE  /\ Derived!Rows' = Derived!Rows /\ Derived!Once(Derived!Rows)' = Derived!Once(Derived!Rows)
           /\ Derived!Backlinks(Derived!Rows)' = Derived!Backlinks(Derived!Rows)
           /\ RemadeFromLog' <=> RemadeFromLog
BY DEF Derived!Rows, Derived!Once, Derived!Backlinks, RemadeFromLog

LEMMA LinkingKeeps ==
    ASSUME RebuildInv, Derived!List \/ Derived!InsertLink \/ Derived!Linked
    PROVE  RebuildInv'
<1>1. /\ rebuild \in RebuildWork /\ (rebuild.clean => LinkingInv) /\ rebuild.step # "idle"
      /\ UNCHANGED <<log, mem, fresh, tagged, indexed, mentioned>>
  BY DEF RebuildInv, RebuildType, Derived!List, Derived!InsertLink, Derived!Linked, Derived!Quiet,
         Derived!At, Derived!tables
<1>2. /\ Derived!Rows' = Derived!Rows /\ Derived!Once(Derived!Rows)' = Derived!Once(Derived!Rows)
      /\ Derived!Backlinks(Derived!Rows)' = Derived!Backlinks(Derived!Rows)
      /\ RemadeFromLog' <=> RemadeFromLog
  BY <1>1, RemadeStays
<1>3. CASE Derived!List
  <2>1. PICK named \in SUBSET Page : named = Derived!Rows
    BY DEF Derived!Rows
  <2>2. PICK w : w = [rebuild EXCEPT !.step = "link", !.rows = named]
    OBVIOUS
  <2>3. rebuild' = w /\ rebuild.step = "list" /\ links' = links
    BY <1>3, <2>1, <2>2 DEF Derived!List, Derived!At, Derived!tables
  <2>4. /\ w \in RebuildWork /\ w.step = "link" /\ w.rows = named /\ w.mode = rebuild.mode
        /\ w.clean = rebuild.clean
    BY <1>1, <2>2 DEF RebuildWork, RebuildPlace
  <2>5. WipedInv' /\ IndexedInv'
    BY <2>3, <2>4 DEF WipedInv, IndexedInv, WipedTables
  <2>6. ASSUME rebuild.clean
        PROVE  LinkingInv'
    BY <1>1, <1>2, <2>1, <2>3, <2>4, <2>6 DEF LinkingInv
  <2> QED
    BY <1>1, <2>3, <2>4, <2>5, <2>6, RebuildAdvances DEF RebuildInv, RebuildType
<1>4. CASE Derived!InsertLink
  <2>1. /\ rebuild' = rebuild /\ rebuild.step = "link"
        /\ \E l \in Derived!Backlinks(rebuild.rows) \ links : links' = links \cup {l}
    BY <1>4 DEF Derived!InsertLink, Derived!At
  <2>2. WipedInv' /\ IndexedInv'
    BY <2>1 DEF WipedInv, IndexedInv, WipedTables
  <2>3. ASSUME rebuild.clean
        PROVE  LinkingInv'
    BY <1>1, <1>2, <2>1, <2>3 DEF LinkingInv
  <2> QED
    BY <1>1, <2>1, <2>2, <2>3, RebuildAdvances DEF RebuildInv, RebuildType
<1>5. CASE Derived!Linked
  <2>1. PICK step \in {"done", "tag"} : step = IF rebuild.mode = "full" THEN "done" ELSE "tag"
    OBVIOUS
  <2>2. /\ rebuild.step = "link" /\ Derived!Go(step) /\ Derived!Backlinks(rebuild.rows) \subseteq links
        /\ links' = links
    BY <1>5, <2>1 DEF Derived!Linked, Derived!At, Derived!tables
  <2>3. step \in RebuildPlace /\ rebuild'.step = step /\ rebuild'.mode = rebuild.mode
    BY <1>1, <2>2, WorkGoes DEF RebuildPlace
  <2>4. ASSUME rebuild.clean
        PROVE  IndexedInv' /\ LinkingInv'
    BY <1>1, <1>2, <2>1, <2>2, <2>3, <2>4 DEF IndexedInv, LinkingInv
  <2> QED
    BY <1>1, <2>2, <2>3, <2>4, RebuildGoesOn DEF WipedTables
<1> QED
  BY <1>3, <1>4, <1>5

LEMMA EndKeeps ==
    ASSUME RebuildInv, Derived!Tag \/ Derived!Done
    PROVE  RebuildInv'
<1>1. /\ rebuild \in RebuildWork /\ (rebuild.clean => LinkingInv) /\ rebuild.step # "idle"
      /\ UNCHANGED <<log, mem, indexed, mentioned, links>>
  BY DEF RebuildInv, RebuildType, Derived!Tag, Derived!Done, Derived!Quiet, Derived!At, Derived!tables
<1>2. /\ Derived!Rows' = Derived!Rows /\ Derived!Once(Derived!Rows)' = Derived!Once(Derived!Rows)
      /\ Derived!Backlinks(Derived!Rows)' = Derived!Backlinks(Derived!Rows)
      /\ RemadeFromLog' <=> RemadeFromLog
  BY <1>1 DEF Derived!Rows, Derived!Once, Derived!Backlinks, RemadeFromLog
<1>3. CASE Derived!Tag
  <2>1. rebuild.step = "tag" /\ Derived!Go("done") /\ tagged' = tagged \cup Derived!Rows
        /\ fresh' = fresh
    BY <1>3 DEF Derived!Tag, Derived!At, Derived!Quiet
  <2>2. "done" \in RebuildPlace /\ rebuild'.step = "done" /\ rebuild'.mode = rebuild.mode
    BY <1>1, <2>1, WorkGoes DEF RebuildPlace
  <2>3. ASSUME rebuild.clean
        PROVE  IndexedInv' /\ LinkingInv'
    BY <1>1, <1>2, <2>1, <2>2, <2>3 DEF IndexedInv, LinkingInv
  <2> QED
    BY <1>1, <2>1, <2>2, <2>3, RebuildGoesOn DEF WipedTables
<1>4. CASE Derived!Done
  <2>1. /\ rebuild' = Derived!Idle /\ rebuild.step = "done" /\ tagged' = tagged
        /\ fresh' = IF rebuild.clean THEN rebuild.mode ELSE ""
    BY <1>4 DEF Derived!Done, Derived!At, Derived!tables
  <2>2. RebuildType'
    BY <1>1, <2>1, IdleWork DEF RebuildInv, RebuildType
  <2>3. WipedInv' /\ IndexedInv' /\ LinkingInv'
    BY <2>1, IdleWork DEF WipedInv, IndexedInv, LinkingInv, WipedTables
  <2>4. Derived!RebuildRestores'
    BY <1>1, <1>2, <2>1 DEF LinkingInv, Derived!RebuildRestores, RemadeFromLog
  <2> QED
    BY <2>1, <2>2, <2>3, <2>4, IdleWork DEF RebuildInv
<1> QED
  BY <1>3, <1>4

LEMMA RebuildKeeps ==
    ASSUME RebuildInv, Derived!Next
    PROVE  RebuildInv'
BY ListEventsKeeps, WipeKeeps, ReplayKeeps, ReplayedKeeps, DropKeeps, IndexKeeps, LinkingKeeps,
   EndKeeps, OthersKeep
DEF Derived!Next, Derived!RebuildStep

LEMMA RebuildUnchanged ==
    ASSUME RebuildInv, UNCHANGED <<log, Derived!tables, rebuild, fresh>>
    PROVE  RebuildInv'
<1>1. UNCHANGED <<log, mem, tagged, links, indexed, mentioned, rebuild, fresh>>
  BY DEF Derived!tables
<1>2. /\ Derived!Rows' = Derived!Rows /\ Derived!Once(Derived!Rows)' = Derived!Once(Derived!Rows)
      /\ Derived!Backlinks(Derived!Rows)' = Derived!Backlinks(Derived!Rows)
      /\ RemadeFromLog' <=> RemadeFromLog
      /\ Derived!Once({})' = Derived!Once({})
  BY <1>1 DEF Derived!Rows, Derived!Once, Derived!Backlinks, RemadeFromLog
<1>3. WipedInv => WipedInv'
  BY <1>1, <1>2 DEF WipedInv
<1>4. IndexedInv => IndexedInv'
  BY <1>1, <1>2 DEF IndexedInv, Derived!Dropped
<1>5. LinkingInv => LinkingInv'
  BY <1>1, <1>2 DEF LinkingInv
<1>6. ReplayingInv => ReplayingInv'
  BY <1>1, <1>2 DEF ReplayingInv
<1>7. Derived!RebuildRestores'
  BY <1>1, <1>2 DEF RebuildInv, Derived!RebuildRestores, RemadeFromLog
<1> QED
  BY <1>1, <1>3, <1>4, <1>5, <1>6, <1>7 DEF RebuildInv, RebuildType

LEMMA RebuildBegins == Derived!Init => RebuildInv
<1> SUFFICES ASSUME Derived!Init
             PROVE  RebuildInv
  OBVIOUS
<1>1. rebuild \in RebuildWork /\ rebuild.step = "idle" /\ fresh = ""
  BY IdleWork DEF Derived!Init
<1>2. log \in Seq(Page)
  <2>1. log = <<>>
    BY DEF Derived!Init
  <2> QED
    BY ONLY <2>1, EmptySeq
<1>3. mem \in [Page -> {"none", "inbox", "settled"}]
  BY DEF Derived!Init
<1> QED
  BY <1>1, <1>2, <1>3 DEF RebuildInv, RebuildType, Derived!RebuildRestores, WipedInv, IndexedInv,
         LinkingInv, WipedTables

-----------------------------------------------------------------------------
(* Times *)

\* What a phrase for a reminder may have.
Phrases(p) ==
    /\ p.relative \in Nat \cup {None} /\ p.absolute \in Nat \cup {None}
    /\ p.weekday \in 0 .. 6 /\ p.hour \in (0 .. 23) \cup {None} /\ p.minute \in 0 .. 59
    /\ p.half \in {"", "morning", "noon", "afternoon", "evening"}

\* The seconds of a day.
Seconds == 0 .. DayLong - 1

LEMMA DayBounds ==
    ASSUME NEW t \in Nat
    PROVE  Day(t) \in Nat /\ Midnight(Day(t)) <= t /\ t < Midnight(Day(t)) + DayLong
  BY SMT DEF Day, Midnight, DayLong

LEMMA DayRest ==
    ASSUME NEW t \in Nat
    PROVE  t % DayLong = t - Midnight(Day(t))
  BY SMT DEF Day, Midnight, DayLong

LEMMA SecondIs ==
    ASSUME NEW s \in Seconds
    PROVE  s \in Int /\ DayLong \in Int /\ 0 <= s /\ s < DayLong
  BY SMT DEF DayLong, Seconds

LEMMA LaterDay ==
    ASSUME NEW d \in Nat, NEW e \in Nat, d < e
    PROVE  Midnight(d) \in Nat /\ Midnight(e) \in Nat /\ Midnight(d) + DayLong <= Midnight(e)
  BY SMT DEF Midnight, DayLong

LEMMA SameDay ==
    ASSUME NEW d \in Nat, NEW e \in Nat, NEW s \in Seconds,
           Midnight(e) <= Midnight(d) + s, Midnight(d) + s < Midnight(e) + DayLong
    PROVE  e = d
<1> DEFINE x == Midnight(d)
           y == Midnight(e)
<1>1. x \in Int /\ y \in Int /\ s \in Int /\ DayLong \in Int /\ 0 <= s /\ s < DayLong
  <2>1. s \in Int /\ DayLong \in Int /\ 0 <= s /\ s < DayLong
    BY SecondIs
  <2>2. x \in Int
    BY <2>1, SMT DEF Midnight
  <2>3. y \in Int
    BY <2>1, SMT DEF Midnight
  <2> QED
    BY <2>1, <2>2, <2>3, Zenon
<1>2. e < d => y + DayLong <= x
  BY SMT DEF Midnight, DayLong
<1>3. d < e => x + DayLong <= y
  BY SMT DEF Midnight, DayLong
<1>4. y <= x + s /\ x + s < y + DayLong
  OBVIOUS
<1> HIDE DEF x, y
<1> QED
  BY <1>1, <1>2, <1>3, <1>4, SMT

LEMMA DayHour ==
    ASSUME NEW d \in Nat, NEW s \in Seconds
    PROVE  Day(Midnight(d) + s) = d /\ (Midnight(d) + s) % DayLong = s
<1> DEFINE x == Midnight(d) + s
<1>1. x \in Nat /\ Midnight(d) \in Nat /\ s \in Nat
  <2>1. s \in Nat /\ DayLong \in Nat
    BY SecondIs
  <2>2. Midnight(d) \in Nat
    BY <2>1, SMT DEF Midnight
  <2> QED
    BY <2>1, <2>2
<1>2. x - Midnight(d) = s
  BY <1>1
<1> HIDE DEF x
<1>3. Day(x) \in Nat /\ Midnight(Day(x)) <= x /\ x < Midnight(Day(x)) + DayLong
  BY <1>1, DayBounds
<1>4. Day(x) = d
  <2> USE DEF x
  <2> QED
    BY <1>3, SameDay
<1>5. x % DayLong = x - Midnight(Day(x))
  BY <1>1, DayRest
<1>6. x % DayLong = s
  BY <1>2, <1>4, <1>5, Zenon
<1> QED
  BY <1>4, <1>6, Zenon DEF x

\* The hour by itself, with what is known of the phrase as numbers: p.half is one of five.
LEMMA MeantHour ==
    ASSUME NEW h \in 0 .. 23
    PROVE  /\ h % 12 = h % 12 /\ (h < 12 => (h + 12) % 12 = h % 12) /\ (h = 12 => 0 % 12 = h % 12)
           /\ h < 12 => h + 12 \in 0 .. 23 /\ h + 12 >= 12
           /\ h <= 12 /\ h # 12 => h < 12
           /\ 0 < 12 /\ 0 \in 0 .. 23 /\ (h = 12 => ~(h < 12) /\ ~(h > 12) /\ h <= 12 /\ h >= 12)
           /\ h > 12 => ~(h < 12) /\ h # 12 /\ ~(h <= 12)
           /\ h \in 10 .. 12 => h <= 12
           /\ ~(h < 12) => h >= 12
           /\ h < 12 => h <= 12 /\ ~(h > 12) /\ h # 12
  OBVIOUS

LEMMA HourIsOne ==
    ASSUME NEW p, Phrases(p), p.hour \in 0 .. 23
    PROVE  HourOfDay(p) \in 0 .. 23 /\ HourIsMeant(p, HourOfDay(p))
<1> DEFINE h == p.hour
           g == HourOfDay(p)
<1>1. h \in 0 .. 23
  OBVIOUS
<1>2. CASE p.half \in {"afternoon", "evening"} /\ h < 12
  <2>1. g = h + 12
    BY <1>2, Zenon DEF HourOfDay
  <2>2. p.half # "" /\ p.half # "morning" /\ p.half # "noon"
    BY <1>2, Zenon
  <2> QED
    BY <1>1, <1>2, <2>1, <2>2, MeantHour, Zenon DEF HourIsMeant
<1>3. CASE p.half = "morning" /\ h = 12
  <2>1. p.half # "" /\ p.half # "noon" /\ p.half \notin {"afternoon", "evening"}
    BY <1>3, Zenon
  <2>2. g = 0
    BY <1>3, <2>1, Zenon DEF HourOfDay
  <2> QED
    BY <1>1, <1>3, <2>1, <2>2, MeantHour, Zenon DEF HourIsMeant
<1>4. CASE ~(p.half \in {"afternoon", "evening"} /\ h < 12) /\ ~(p.half = "morning" /\ h = 12)
  <2>1. g = h
    BY <1>4, Zenon DEF HourOfDay
  <2> QED
    BY <1>1, <1>4, <2>1, MeantHour, Zenon DEF HourIsMeant
<1> QED
  BY <1>2, <1>3, <1>4, Zenon

LEMMA HourBounds ==
    ASSUME NEW t \in Nat
    PROVE  /\ t \div Hour \in Nat
           /\ Hour * (t \div Hour) <= t /\ t < Hour * (t \div Hour) + Hour
           /\ t % Hour = t - Hour * (t \div Hour)
  BY SMT DEF Hour

LEMMA OneHour ==
    ASSUME NEW h \in Nat, NEW g \in Nat, NEW k \in 0 .. Hour - 1,
           Hour * g <= Hour * h + k, Hour * h + k < Hour * g + Hour
    PROVE  g = h
<1> DEFINE x == Hour * h
           y == Hour * g
<1>1. x \in Int /\ y \in Int /\ k \in Int /\ Hour \in Int /\ 0 <= k /\ k < Hour
  <2>1. k \in Int /\ Hour \in Int /\ 0 <= k /\ k < Hour
    BY SMT DEF Hour
  <2>2. x \in Int
    BY <2>1, SMT
  <2>3. y \in Int
    BY <2>1, SMT
  <2> QED
    BY <2>1, <2>2, <2>3, Zenon
<1>2. g < h => y + Hour <= x
  BY SMT DEF Hour
<1>3. h < g => x + Hour <= y
  BY SMT DEF Hour
<1>4. y <= x + k /\ x + k < y + Hour
  OBVIOUS
<1> HIDE DEF x, y
<1> QED
  BY <1>1, <1>2, <1>3, <1>4, SMT

LEMMA HourPart ==
    ASSUME NEW h \in Nat, NEW k \in 0 .. Hour - 1
    PROVE  (Hour * h + k) \div Hour = h /\ (Hour * h + k) % Hour = k
<1> DEFINE x == Hour * h + k
           g == x \div Hour
<1>1. x \in Nat /\ Hour * h \in Nat /\ k \in Nat /\ x - Hour * h = k
  <2>1. Hour \in Nat /\ k \in Nat
    BY SMT DEF Hour
  <2>2. Hour * h \in Nat
    BY <2>1, SMT
  <2> QED
    BY <2>1, <2>2
<1> HIDE DEF x
<1>2. g \in Nat /\ Hour * g <= x /\ x < Hour * g + Hour /\ x % Hour = x - Hour * g
  BY <1>1, HourBounds
<1> HIDE DEF g
<1>3. g = h
  <2> USE DEF x
  <2> QED
    BY <1>2, OneHour
<1>4. x % Hour = k
  BY <1>1, <1>2, <1>3, Zenon
<1> QED
  BY <1>3, <1>4, Zenon DEF x, g

LEMMA ClockTime ==
    ASSUME NEW h \in 0 .. 23, NEW m \in 0 .. 59
    PROVE  Hour * h + 60 * m \in Seconds /\ h \in Nat /\ 60 * m \in 0 .. Hour - 1
<1> DEFINE t == Hour * h + 60 * m
           last == DayLong - 1
<1>1. t \in Int /\ last \in Int /\ 0 <= t
  BY SMT DEF Hour, DayLong
<1>2. t <= last
  BY SMT DEF Hour, DayLong
<1> HIDE DEF t, last
<1>3. t \in 0 .. last
  BY <1>1, <1>2, SMT
<1>4. h \in Nat /\ 60 * m \in 0 .. Hour - 1
  BY SMT DEF Hour
<1> QED
  BY <1>3, <1>4, Zenon DEF t, last, Seconds

\* The time of day, in seconds.
LEMMA TimeIsOne ==
    ASSUME NEW p, Phrases(p), p.hour \in 0 .. 23
    PROVE  /\ TimeOfDay(p) \in Seconds /\ HourIsMeant(p, TimeOfDay(p) \div Hour)
           /\ TimeOfDay(p) % Hour = 60 * p.minute
<1> DEFINE h == HourOfDay(p)
           m == p.minute
           s == TimeOfDay(p)
<1>1. h \in 0 .. 23 /\ HourIsMeant(p, h)
  BY HourIsOne, Zenon
<1>2. m \in 0 .. 59
  BY Zenon DEF Phrases
<1>3. s = Hour * h + 60 * m
  BY Zenon DEF TimeOfDay
<1> HIDE DEF h, m, s
<1>4. s \in Seconds /\ s \div Hour = h /\ s % Hour = 60 * m
  <2>1. s \in Seconds
    BY <1>1, <1>2, <1>3, ClockTime, Zenon
  <2>2. h \in Nat /\ 60 * m \in 0 .. Hour - 1
    BY <1>1, <1>2, ClockTime, Zenon
  <2>3. s \div Hour = h /\ s % Hour = 60 * m
    BY <1>3, <2>2, HourPart, Zenon
  <2> QED
    BY <2>1, <2>3, Zenon
<1>5. HourIsMeant(p, s \div Hour)
  BY <1>1, <1>4, Zenon
<1> QED
  BY <1>4, <1>5, Zenon DEF m, s

\* The days to a weekday of the week to come.
DaysTo(w) == LET days == (w - Weekday(Day(now)) + 7) % 7 IN IF days = 0 THEN 7 ELSE days

LEMMA NextWeekday ==
    ASSUME now \in Nat, FirstWeekday \in 0 .. 6, NEW w \in 0 .. 6
    PROVE  DaysTo(w) \in 1 .. 7 /\ Weekday(Day(now) + DaysTo(w)) = w
<1> DEFINE d == Day(now)
<1>1. d \in Nat
  BY DayBounds
<1> HIDE DEF d
<1> DEFINE x == (d + FirstWeekday) % 7
           k == (w - x + 7) % 7
<1>2. x \in 0 .. 6
  BY <1>1
<1>3. PICK a \in Nat : d + FirstWeekday = 7 * a + x
  BY <1>1
<1> HIDE DEF x
<1>4. k \in 0 .. 6 /\ (k = w - x \/ k = w - x + 7)
  BY <1>2
<1> HIDE DEF k
<1>5. CASE k = 0
  <2>1. (d + 7 + FirstWeekday) % 7 = w
    BY <1>1, <1>2, <1>3, <1>4, <1>5
  <2> QED
    BY <1>5, <2>1 DEF DaysTo, Weekday, d, x, k
<1>6. CASE k # 0
  <2>1. (d + k + FirstWeekday) % 7 = w
    BY <1>1, <1>2, <1>3, <1>4, <1>6
  <2>2. DaysTo(w) = k
    BY <1>6 DEF DaysTo, Weekday, d, x, k
  <2> QED
    BY <1>4, <1>6, <2>1, <2>2 DEF Weekday, d
<1> QED
  BY <1>5, <1>6

LEMMA DateArithmetic ==
    ASSUME NEW t \in Nat, NEW k \in Nat, NEW s \in Seconds
    PROVE  /\ Day(Midnight(Day(t) + k) + s) = Day(t) + k
           /\ Day(Midnight(Day(t) + k) + s) - Day(t) = k
           /\ (Midnight(Day(t) + k) + s) % DayLong = s
           /\ k # 0 => Midnight(Day(t) + k) + s >= t
<1> DEFINE d == Day(t)
           e == d + k
<1>1. d \in Nat /\ t < Midnight(d) + DayLong
  BY DayBounds
<1> HIDE DEF d
<1>2. e \in Nat /\ e - d = k
  BY <1>1
<1>3. Day(Midnight(e) + s) = e /\ (Midnight(e) + s) % DayLong = s
  BY <1>2, DayHour
<1>4. k # 0 => Midnight(e) + s >= t
  <2> SUFFICES ASSUME k # 0
               PROVE  Midnight(e) + s >= t
    OBVIOUS
  <2>1. d < e
    BY <1>1
  <2>2. Midnight(d) \in Nat /\ Midnight(e) \in Nat /\ Midnight(d) + DayLong <= Midnight(e)
    BY <1>1, <1>2, <2>1, LaterDay, Zenon
  <2>3. s \in Int /\ DayLong \in Int /\ 0 <= s
    BY SecondIs, Zenon
  <2> HIDE DEF e
  <2> QED
    BY <1>1, <2>2, <2>3, SMT
<1> QED
  BY <1>2, <1>3, <1>4 DEF d

\* A time alone is today's, or tomorrow's when it is past.
LEMMA TodayOrTomorrow ==
    ASSUME NEW t \in Nat, NEW s \in Seconds, NEW at,
           at = IF Midnight(Day(t)) + s < t THEN Midnight(Day(t)) + s + DayLong
                ELSE Midnight(Day(t)) + s
    PROVE  at >= t /\ at - t < DayLong /\ at % DayLong = s
<1> DEFINE d == Day(t)
           m == Midnight(d)
<1>1. d \in Nat /\ m <= t /\ t < m + DayLong
  BY DayBounds, Zenon
<1>2. /\ m \in Nat /\ Midnight(d + 1) = m + DayLong /\ d + 1 \in Nat
      /\ DayLong \in Nat /\ s \in Nat /\ s < DayLong
  <2>1. m \in Nat /\ Midnight(d + 1) = m + DayLong /\ d + 1 \in Nat
    BY <1>1, SMT DEF Midnight, DayLong
  <2>2. DayLong \in Nat /\ s \in Nat /\ s < DayLong
    BY SecondIs, SMT
  <2> QED
    BY <2>1, <2>2, Zenon
<1>3. (m + s) % DayLong = s /\ (Midnight(d + 1) + s) % DayLong = s
  BY <1>1, <1>2, DayHour, Zenon
<1>4. at = IF m + s < t THEN m + s + DayLong ELSE m + s
  BY Zenon
<1> HIDE DEF m, d
<1>5. CASE m + s < t
  <2>1. at = Midnight(d + 1) + s
    BY <1>2, <1>4, <1>5, SMT
  <2>2. at % DayLong = s
    BY <1>3, <2>1, Zenon
  <2>3. at >= t /\ at - t < DayLong
    BY <1>1, <1>2, <1>4, <1>5, SMT
  <2> QED
    BY <2>2, <2>3, Zenon
<1>6. CASE ~(m + s < t)
  <2>1. at = m + s
    BY <1>4, <1>6, Zenon
  <2>2. at % DayLong = s
    BY <1>3, <2>1, Zenon
  <2>3. at >= t /\ at - t < DayLong
    BY <1>1, <1>2, <1>6, <2>1, SMT
  <2> QED
    BY <2>2, <2>3, Zenon
<1> QED
  BY <1>5, <1>6, Zenon

LEMMA Numbers ==
    ASSUME now \in Nat, FirstWeekday \in 0 .. 6
    PROVE  /\ 0 \in Nat /\ 1 \in Nat /\ 2 \in Nat /\ 1 # 0 /\ 2 # 0 /\ 0 \in Seconds
           /\ \A n \in Nat : now + n >= now
           /\ Day(now) + 0 = Day(now) /\ now + Hour >= now
           /\ \A w \in 0 .. 6 : DaysTo(w) \in Nat /\ DaysTo(w) # 0 /\ DaysTo(w) \in 1 .. 7
<1>1. \A w \in 0 .. 6 : DaysTo(w) \in 1 .. 7
  BY NextWeekday
<1>2. \A k \in 1 .. 7 : k \in Nat /\ k # 0
  OBVIOUS
<1>3. Day(now) + 0 = Day(now) /\ now + Hour >= now
  BY DayBounds, SMT DEF Hour
<1>4. 0 \in Seconds
  BY SMT DEF Seconds, DayLong
<1> QED
  BY <1>1, <1>2, <1>3, <1>4

\* A reminder whose day is named.
LEMMA WithDate ==
    ASSUME NEW p, Phrases(p), now \in Nat, FirstWeekday \in 0 .. 6,
           p.relative = None,
           p.date \in {"today", "tomorrow", "in two days", "in three days", "next week"}
    PROVE  DueAsSaid(p, ParseReminderTime(p))
<1> DEFINE k == DayOffset(p)
           h == IF p.hour = None THEN 0 ELSE TimeOfDay(p)
           at == ParseReminderTime(p)
<1>1. /\ k \in Nat /\ (p.date # "today" => k # 0)
      /\ (p.date = "next week" => k = DaysTo(p.weekday))
      /\ (p.date = "today" => k = 0) /\ (p.date = "tomorrow" => k = 1)
      /\ (p.date = "in two days" => k = 2)
  <2>1. \/ p.date = "today" /\ k = 0
        \/ p.date = "tomorrow" /\ k = 1
        \/ p.date = "in two days" /\ k = 2
        \/ p.date = "in three days" /\ k = 2
        \/ p.date = "next week" /\ k = DaysTo(p.weekday)
    BY Zenon DEF DayOffset, DaysTo
  <2>2. p.weekday \in 0 .. 6
    BY Zenon DEF Phrases
  <2> HIDE DEF k
  <2> QED
    BY <2>1, <2>2, Numbers, Zenon
<1>2. h \in Seconds
  <2>1. p.hour = None \/ p.hour \in 0 .. 23
    BY Zenon DEF Phrases
  <2> QED
    BY <2>1, TimeIsOne, Numbers, Zenon
<1>3. at = Midnight(Day(now) + k) + h
  BY Zenon DEF ParseReminderTime, DateAndTime
<1>4. p.date = "next week" => k \in 1 .. 7 /\ Weekday(Day(now) + k) = p.weekday
  <2>1. p.weekday \in 0 .. 6
    BY Zenon DEF Phrases
  <2> HIDE DEF k
  <2> QED
    BY <1>1, <2>1, NextWeekday, Zenon
<1>5. p.hour # None => HourIsMeant(p, h \div Hour) /\ h % Hour = 60 * p.minute
  <2> SUFFICES ASSUME p.hour # None PROVE HourIsMeant(p, h \div Hour) /\ h % Hour = 60 * p.minute
    OBVIOUS
  <2>1. p.hour \in 0 .. 23 /\ h = TimeOfDay(p)
    BY Zenon DEF Phrases
  <2> HIDE DEF h
  <2> QED
    BY <2>1, TimeIsOne, Zenon
<1>6. p.date # ""
  BY Zenon
<1> HIDE DEF k, h, at
<1>7. /\ Day(at) = Day(now) + k /\ Day(at) - Day(now) = k /\ at % DayLong = h
      /\ k # 0 => at >= now
  <2> DEFINE when == Midnight(Day(now) + k) + h
  <2>1. /\ Day(when) = Day(now) + k /\ Day(when) - Day(now) = k /\ when % DayLong = h
        /\ k # 0 => when >= now
    BY <1>1, <1>2, DateArithmetic, Zenon
  <2> QED
    BY <1>3, <2>1, Zenon
<1>8. /\ p.date = "today" => Day(at) = Day(now)
      /\ p.date = "tomorrow" => Day(at) = Day(now) + 1
      /\ p.date = "in two days" => Day(at) = Day(now) + 2
  BY <1>1, <1>7, Numbers, Zenon
<1>9. p.hour # None => HourIsMeant(p, (at % DayLong) \div Hour) /\ (at % DayLong) % Hour = 60 * p.minute
  BY <1>5, <1>7, Zenon
<1>10. DueAsSaid(p, at)
  BY <1>1, <1>4, <1>6, <1>7, <1>8, <1>9, Zenon DEF DueAsSaid
<1> QED
  BY <1>10, Zenon DEF at

\* A reminder with a time alone, a date in numbers or no time.
LEMMA WithoutDate ==
    ASSUME NEW p, Phrases(p), now \in Nat, FirstWeekday \in 0 .. 6, p.relative = None, p.date = ""
    PROVE  DueAsSaid(p, ParseReminderTime(p))
<1> DEFINE at == ParseReminderTime(p)
           h == TimeOfDay(p)
<1>1. p.date \notin {"today", "tomorrow", "in two days", "next week"}
  BY Zenon
<1>2. CASE p.hour # None
  <2>1. /\ h \in Seconds /\ HourIsMeant(p, h \div Hour)
        /\ h % Hour = 60 * p.minute
    <3>1. p.hour \in 0 .. 23
      BY <1>2, Zenon DEF Phrases
    <3> QED
      BY <3>1, TimeIsOne, Zenon
  <2>2. at = IF Midnight(Day(now)) + h < now THEN Midnight(Day(now)) + h + DayLong
             ELSE Midnight(Day(now)) + h
    BY <1>2, Zenon DEF ParseReminderTime, OnlyTime
  <2> HIDE DEF at, h
  <2>3. at >= now /\ at - now < DayLong /\ at % DayLong = h
    BY <2>1, <2>2, TodayOrTomorrow, Zenon
  <2>4. DueAsSaid(p, at)
    BY <1>1, <1>2, <2>1, <2>3, Zenon DEF DueAsSaid
  <2> QED
    BY <2>4, Zenon DEF at
<1>3. CASE p.hour = None
  <2>1. p.absolute = None => at >= now
    BY <1>3, Numbers, Zenon DEF ParseReminderTime
  <2> HIDE DEF at
  <2>2. DueAsSaid(p, at)
    BY <1>1, <1>3, <2>1, Zenon DEF DueAsSaid
  <2> QED
    BY <2>2, Zenon DEF at
<1> QED
  BY <1>2, <1>3, Zenon

LEMMA Reminded ==
    ASSUME NEW p \in Reminder, now \in Now
    PROVE  DueAsSaid(p, ParseReminderTime(p))
<1>1. now \in Nat /\ Phrases(p) /\ FirstWeekday \in 0 .. 6
  BY TimesAssumption, Zenon DEF Phrases
<1>2. p.date \in {"", "today", "tomorrow", "in two days", "in three days", "next week"}
  BY TimesAssumption, Zenon
<1>3. CASE p.relative # None
  <2> DEFINE at == ParseReminderTime(p)
  <2>1. p.relative \in Nat /\ at = now + p.relative
    BY <1>1, <1>3, Zenon DEF ParseReminderTime, Phrases
  <2>2. at >= now
    BY <1>1, <2>1, Numbers, Zenon
  <2> HIDE DEF at
  <2>3. DueAsSaid(p, at)
    BY <1>3, <2>2, Zenon DEF DueAsSaid
  <2> QED
    BY <2>3 DEF at
<1>4. CASE p.relative = None /\ p.date = ""
  BY <1>1, <1>4, WithoutDate, Zenon
<1>5. CASE /\ p.relative = None
           /\ p.date \in {"today", "tomorrow", "in two days", "in three days", "next week"}
  BY <1>1, <1>5, WithDate, Zenon
<1> QED
  BY <1>2, <1>3, <1>4, <1>5, Zenon

-----------------------------------------------------------------------------
(* Ranges of time *)

LEMMA Months ==
    ASSUME NEW m \in 1 .. 12
    PROVE  MonthStart[m] \in 0 .. 334 /\ MonthStart[m + 1] \in 0 .. 365
           /\ MonthStart[m] + 28 <= MonthStart[m + 1]
<1>1. \/ m = 1 \/ m = 2 \/ m = 3 \/ m = 4 \/ m = 5 \/ m = 6 \/ m = 7 \/ m = 8 \/ m = 9
      \/ m = 10 \/ m = 11 \/ m = 12
  OBVIOUS
<1> QED
  BY <1>1 DEF MonthStart

LEMMA YearBounds ==
    ASSUME NEW d \in Nat
    PROVE  Year(d) \in Nat /\ 365 * Year(d) <= d /\ d < 365 * Year(d) + 365
  BY DEF Year

\* A day of this year.
LEMMA DateBounds ==
    ASSUME NEW y \in Nat, NEW m \in 1 .. 12, NEW k \in 1 .. 31
    PROVE  Date(y, m, k) \in Nat /\ 365 * y <= Date(y, m, k) /\ Date(y, m, k) < 365 * y + 365
<1> DEFINE s == MonthStart[m]
<1>1. s \in 0 .. 334
  BY Months
<1> HIDE DEF s
<1>2. 365 * y + s + k - 1 \in Nat /\ 365 * y <= 365 * y + s + k - 1
      /\ 365 * y + s + k - 1 < 365 * y + 365
  BY <1>1
<1> QED
  BY <1>2 DEF Date, s

Ordered(r, t) == r.from <= t /\ r.to <= t /\ r.from <= r.to

\* A range that is not over is taken to be last year's, which is over.
LEMMA LastYear ==
    ASSUME now \in Nat, NEW a \in Nat, NEW b \in Nat, a <= b,
           365 * ThisYear <= a, b < 365 * ThisYear + 365
    PROVE  LET r == YearBefore(Days(a, b)) IN
             /\ Ordered(r, now) /\ r.to + DayLong * 365 > now /\ Day(r.to + 1) - Day(r.from) = b + 1 - a
<1> DEFINE y == ThisYear
           f == DayLong * a
           e == DayLong * (b + 1) - 1
           r == YearBefore(Days(a, b))
<1>1. y \in Nat /\ now < DayLong * (365 * y + 365) /\ now >= DayLong * 365 * y
  <2> DEFINE d == Day(now)
  <2>1. d \in Nat /\ DayLong * d <= now /\ now < DayLong * d + DayLong
    BY DayBounds, Zenon DEF Midnight
  <2>2. y \in Nat /\ 365 * y <= d /\ d < 365 * y + 365
    BY <2>1, YearBounds DEF ThisYear
  <2> HIDE DEF d, y
  <2> QED
    BY <2>1, <2>2, SMT DEF DayLong
<1>2. Days(a, b) = [from |-> f, to |-> e]
  BY SMT DEF Days, Midnight, DayLong
<1>3. f \in Nat /\ e \in Nat /\ f <= e /\ DayLong * 365 * y <= f /\ e < DayLong * (365 * y + 365)
  <2> HIDE DEF y
  <2> QED
    BY <1>1, SMT DEF y, DayLong
<1>4. /\ (e + 1) \div DayLong - f \div DayLong = b + 1 - a
      /\ (e - DayLong * 365 + 1) \div DayLong - (f - DayLong * 365) \div DayLong = b + 1 - a
  BY SMT DEF DayLong
<1> HIDE DEF f, e, y
<1>5. CASE e > now
  <2>1. r = [from |-> f - DayLong * 365, to |-> e - DayLong * 365]
    BY <1>2, <1>3, <1>5, SMT DEF YearBefore, Shift, DayLong
  <2>2. r.from = f - DayLong * 365 /\ r.to = e - DayLong * 365
    BY <2>1
  <2> HIDE DEF r
  <2> QED
    BY <1>1, <1>3, <1>4, <1>5, <2>2, SMT DEF Ordered, Day, DayLong, r
<1>6. CASE ~(e > now)
  <2>1. r = [from |-> f, to |-> e]
    BY <1>2, <1>3, <1>6, SMT DEF YearBefore, DayLong
  <2>2. r.from = f /\ r.to = e
    BY <2>1
  <2> HIDE DEF r
  <2> QED
    BY <1>1, <1>3, <1>4, <1>6, <2>2, SMT DEF Ordered, Day, DayLong, r
<1> QED
  BY <1>5, <1>6

LEMMA NowDays ==
    ASSUME now \in Nat, FirstWeekday \in 0 .. 6
    PROVE  /\ Day(now) \in Nat /\ ThisYear \in Nat /\ 365 * ThisYear <= Day(now)
           /\ Day(now) < 365 * ThisYear + 365
           /\ DayLong * Day(now) <= now /\ now < DayLong * Day(now) + DayLong
           /\ Day(now) - Monday \in 0 .. 6
<1> DEFINE d == Day(now)
<1>1. d \in Nat /\ DayLong * d <= now /\ now < DayLong * d + DayLong
  BY DayBounds, SMT DEF Midnight, DayLong
<1>2. ThisYear \in Nat /\ 365 * ThisYear <= d /\ d < 365 * ThisYear + 365
  BY <1>1, YearBounds DEF ThisYear
<1> HIDE DEF d
<1>3. d - Monday \in 0 .. 6
  BY <1>1 DEF Monday, Weekday, d
<1> QED
  BY <1>1, <1>2, <1>3 DEF d

LEMMA Weeks ==
    ASSUME now \in Nat, FirstWeekday \in 0 .. 6
    PROVE  /\ \A n \in Nat : Ordered([from |-> now - DayLong * n, to |-> now], now)
           /\ LET start == now - DayLong * (Day(now) - Monday) - DayLong * 7 IN
                Ordered([from |-> start, to |-> start + DayLong * 6], now)
           /\ Ordered([from |-> now - DayLong * (Day(now) - Monday), to |-> now], now)
<1> DEFINE k == Day(now) - Monday
<1>1. k \in 0 .. 6
  BY NowDays
<1> HIDE DEF k
<1>2. ASSUME NEW n \in Nat
      PROVE  Ordered([from |-> now - DayLong * n, to |-> now], now)
  BY SMT DEF Ordered, DayLong
<1>3. LET start == now - DayLong * k - DayLong * 7 IN
        Ordered([from |-> start, to |-> start + DayLong * 6], now)
  BY <1>1, SMT DEF Ordered, DayLong
<1>4. Ordered([from |-> now - DayLong * k, to |-> now], now)
  BY <1>1, SMT DEF Ordered, DayLong
<1> QED
  BY <1>2, <1>3, <1>4 DEF k

LEMMA OneDay ==
    ASSUME now \in Nat, FirstWeekday \in 0 .. 6, NEW n \in Nat
    PROVE  LET r == Days(Day(now) - n, Day(now) - n) IN r.from <= now /\ r.from <= r.to
<1> DEFINE d == Day(now)
<1>1. d \in Nat /\ DayLong * d <= now
  BY NowDays
<1> HIDE DEF d
<1>2. LET r == Days(d - n, d - n) IN r.from <= now /\ r.from <= r.to
  BY <1>1, SMT DEF Days, Midnight, DayLong
<1> QED
  BY <1>2 DEF d

LEMMA OneDate ==
    ASSUME NEW d \in Nat
    PROVE  /\ Days(d, d).from <= Days(d, d).to
           /\ Days(d - 365, d - 365).from <= Days(d - 365, d - 365).to
  BY SMT DEF Days, Midnight, DayLong

LEMMA TwoDates ==
    ASSUME now \in Nat, FirstWeekday \in 0 .. 6, NEW a \in Nat, NEW b \in Nat,
           a < 365 * ThisYear + 365
    PROVE  LET r == [from |-> Midnight(a), to |-> Midnight(b + 1) - 1]
               s == IF r.from > now THEN Shift(r, -365) ELSE r
           IN  s.from <= now /\ (a <= b => s.from <= s.to)
<1> DEFINE d == Day(now)
           y == ThisYear
           r == [from |-> Midnight(a), to |-> Midnight(b + 1) - 1]
           s == IF r.from > now THEN Shift(r, -365) ELSE r
<1>1. d \in Nat /\ y \in Nat /\ 365 * y <= d /\ DayLong * d <= now /\ a < 365 * y + 365
  BY NowDays
<1> HIDE DEF d, y
<1>2. r.from = DayLong * a /\ r.to = DayLong * (b + 1) - 1
  BY SMT DEF Midnight, DayLong
<1>3. CASE r.from > now
  <2>1. s = Shift(r, -365)
    BY <1>3
  <2>2. s.from = DayLong * a - DayLong * 365 /\ s.to = DayLong * (b + 1) - 1 - DayLong * 365
    BY <1>2, <2>1, SMT DEF Shift, DayLong
  <2> HIDE DEF r, s
  <2> QED
    BY <1>1, <2>2, SMT DEF DayLong, r, s
<1>4. CASE ~(r.from > now)
  <2>1. s = r
    BY <1>4
  <2>2. s.from = DayLong * a /\ s.to = DayLong * (b + 1) - 1
    BY <1>2, <2>1
  <2> QED
    BY <1>1, <1>2, <1>4, <2>2, SMT DEF DayLong
<1> QED
  BY <1>3, <1>4

LEMMA MonthParts ==
    ASSUME now \in Nat, FirstWeekday \in 0 .. 6, NEW m \in 1 .. 12
    PROVE  /\ Ordered(YearBefore(Days(Date(ThisYear, m, 1), Date(ThisYear, m, 10))), now)
           /\ Ordered(YearBefore(Days(Date(ThisYear, m, 8), Date(ThisYear, m, 20))), now)
           /\ Ordered(YearBefore(Days(Date(ThisYear, m, 18), Date(ThisYear, m + 1, 1) - 1)), now)
           /\ LET r == YearBefore(Days(Date(ThisYear, m, 1), Date(ThisYear, m + 1, 1) - 1)) IN
                /\ Ordered(r, now) /\ r.to + DayLong * 365 > now
                /\ Day(r.to + 1) - Day(r.from) = MonthStart[m + 1] - MonthStart[m]
<1> DEFINE y == ThisYear
           s == MonthStart[m]
           e == MonthStart[m + 1]
<1>1. y \in Nat
  BY NowDays
<1>2. s \in 0 .. 334 /\ e \in 0 .. 365 /\ s + 28 <= e
  BY Months
<1> HIDE DEF y, s, e
<1>3. \A k \in 1 .. 31 : Date(y, m, k) = 365 * y + s + k - 1
  BY <1>1, <1>2 DEF Date, s
<1>4. Date(y, m + 1, 1) = 365 * y + e
  BY <1>1, <1>2 DEF Date, e
<1>5. /\ Date(y, m, 1) = 365 * y + s /\ Date(y, m, 10) = 365 * y + s + 9
      /\ Date(y, m, 8) = 365 * y + s + 7 /\ Date(y, m, 20) = 365 * y + s + 19
      /\ Date(y, m, 18) = 365 * y + s + 17
  BY <1>1, <1>2, <1>3
<1>6. ASSUME NEW a \in 0 .. 364, NEW b \in 0 .. 364, a <= b
      PROVE  LET r == YearBefore(Days(365 * y + a, 365 * y + b)) IN
               /\ Ordered(r, now) /\ r.to + DayLong * 365 > now
               /\ Day(r.to + 1) - Day(r.from) = b + 1 - a
  <2> DEFINE u == 365 * y + a
             v == 365 * y + b
  <2>1. /\ u \in Nat /\ v \in Nat /\ u <= v /\ 365 * y <= u /\ v < 365 * y + 365
        /\ v + 1 - u = b + 1 - a
    BY <1>1, <1>6
  <2> HIDE DEF u, v
  <2>2. LET r == YearBefore(Days(u, v)) IN
          /\ Ordered(r, now) /\ r.to + DayLong * 365 > now /\ Day(r.to + 1) - Day(r.from) = v + 1 - u
    BY <2>1, LastYear DEF y
  <2> QED
    BY <2>1, <2>2 DEF u, v
<1> DEFINE Part(a, b) == YearBefore(Days(365 * y + a, 365 * y + b))
<1>7. \A a, b \in 0 .. 364 : a <= b =>
        /\ Ordered(Part(a, b), now) /\ Part(a, b).to + DayLong * 365 > now
        /\ Day(Part(a, b).to + 1) - Day(Part(a, b).from) = b + 1 - a
  BY <1>6, Zenon
<1>8. /\ YearBefore(Days(Date(y, m, 1), Date(y, m, 10))) = Part(s, s + 9)
      /\ YearBefore(Days(Date(y, m, 8), Date(y, m, 20))) = Part(s + 7, s + 19)
      /\ YearBefore(Days(Date(y, m, 18), Date(y, m + 1, 1) - 1)) = Part(s + 17, e - 1)
      /\ YearBefore(Days(Date(y, m, 1), Date(y, m + 1, 1) - 1)) = Part(s, e - 1)
  <2>1. /\ 365 * y + s + 9 = 365 * y + (s + 9) /\ 365 * y + s + 7 = 365 * y + (s + 7)
        /\ 365 * y + s + 19 = 365 * y + (s + 19) /\ 365 * y + s + 17 = 365 * y + (s + 17)
        /\ 365 * y + e - 1 = 365 * y + (e - 1)
    BY <1>1, <1>2
  <2>2. YearBefore(Days(Date(y, m, 1), Date(y, m, 10))) = Part(s, s + 9)
    BY <1>5, <2>1, Zenon
  <2>3. YearBefore(Days(Date(y, m, 8), Date(y, m, 20))) = Part(s + 7, s + 19)
    BY <1>5, <2>1, Zenon
  <2>4. Date(y, m + 1, 1) - 1 = 365 * y + (e - 1)
    BY <1>1, <1>2, <1>4
  <2>5. YearBefore(Days(Date(y, m, 18), Date(y, m + 1, 1) - 1)) = Part(s + 17, e - 1)
    BY <1>5, <2>1, <2>4, Zenon
  <2>6. YearBefore(Days(Date(y, m, 1), Date(y, m + 1, 1) - 1)) = Part(s, e - 1)
    BY <1>5, <2>4, Zenon
  <2> QED
    BY <2>2, <2>3, <2>5, <2>6, Zenon
<1> HIDE DEF Part
<1>9. /\ s \in 0 .. 364 /\ s + 9 \in 0 .. 364 /\ s + 7 \in 0 .. 364 /\ s + 19 \in 0 .. 364
      /\ s + 17 \in 0 .. 364 /\ e - 1 \in 0 .. 364 /\ s <= s + 9 /\ s + 7 <= s + 19
      /\ s + 17 <= e - 1 /\ s <= e - 1 /\ e - 1 + 1 - s = e - s
  BY <1>2
<1>10. /\ Ordered(Part(s, s + 9), now) /\ Ordered(Part(s + 7, s + 19), now)
       /\ Ordered(Part(s + 17, e - 1), now)
  <2>1. Ordered(Part(s, s + 9), now)
    BY <1>7, <1>9, Zenon
  <2>2. Ordered(Part(s + 7, s + 19), now)
    BY <1>7, <1>9, Zenon
  <2>3. Ordered(Part(s + 17, e - 1), now)
    BY <1>7, <1>9, Zenon
  <2> QED
    BY <2>1, <2>2, <2>3, Zenon
<1>11. /\ Ordered(Part(s, e - 1), now) /\ Part(s, e - 1).to + DayLong * 365 > now
       /\ Day(Part(s, e - 1).to + 1) - Day(Part(s, e - 1).from) = e - s
  <2>1. /\ Ordered(Part(s, e - 1), now) /\ Part(s, e - 1).to + DayLong * 365 > now
        /\ Day(Part(s, e - 1).to + 1) - Day(Part(s, e - 1).from) = e - 1 + 1 - s
    BY <1>7, <1>9, Zenon
  <2> QED
    BY <1>9, <2>1, Zenon
<1> QED
  BY <1>8, <1>10, <1>11 DEF y, s, e

\* Which of two dates comes first does not depend on the year.
LEMMA SameYear ==
    ASSUME NEW y \in Nat, NEW m \in 1 .. 12, NEW n \in 1 .. 12, NEW j \in 1 .. 31,
           NEW k \in 1 .. 31
    PROVE  Date(0, m, j) <= Date(0, n, k) => Date(y, m, j) <= Date(y, n, k)
<1> DEFINE s == MonthStart[m]
           e == MonthStart[n]
<1>1. s \in 0 .. 334 /\ e \in 0 .. 334
  <2>1. s \in 0 .. 334
    BY Months
  <2>2. e \in 0 .. 334
    BY Months
  <2> QED
    BY <2>1, <2>2
<1> HIDE DEF s, e
<1>2. 365 * 0 + s + j - 1 <= 365 * 0 + e + k - 1 => 365 * y + s + j - 1 <= 365 * y + e + k - 1
  BY <1>1
<1> QED
  BY <1>2 DEF Date, s, e

LEMMA Ranged ==
    ASSUME NEW q \in Asking, now \in Now
    PROVE  RangeIsPast(q, DetectTimeIntent(q))
<1> DEFINE r == DetectTimeIntent(q)
<1>1. now \in Nat /\ FirstWeekday \in 0 .. 6
  BY TimesAssumption, Zenon
<1>2. /\ q.n \in Nat /\ q.month \in 1 .. 12 /\ q.month2 \in 1 .. 12
      /\ q.day \in 1 .. 31 /\ q.day2 \in 1 .. 31
  BY TimesAssumption, Zenon
<1>3. q.kind \in {"last days", "last week", "this week", "days ago", "dates", "early month",
                  "mid month", "late month", "month", "date", "full date"}
  BY TimesAssumption, Zenon
<1>4. ThisYear \in Nat
  BY <1>1, NowDays, Zenon
<1>5. ASSUME q.kind \notin {"days ago", "dates", "month", "date", "full date"}, Ordered(r, now)
      PROVE  RangeIsPast(q, r)
  BY <1>5, Zenon DEF RangeIsPast, Ordered
<1>6. CASE q.kind = "last days"
  <2>1. r = [from |-> now - DayLong * q.n, to |-> now]
    BY <1>6, Zenon DEF DetectTimeIntent
  <2> QED
    BY <1>1, <1>2, <1>5, <1>6, <2>1, Weeks, Zenon
<1>7. CASE q.kind = "last week"
  <2>1. r = LET start == now - DayLong * (Day(now) - Monday) - DayLong * 7 IN
              [from |-> start, to |-> start + DayLong * 6]
    BY <1>7, Zenon DEF DetectTimeIntent
  <2> QED
    BY <1>1, <1>5, <1>7, <2>1, Weeks, Zenon
<1>8. CASE q.kind = "this week"
  <2>1. r = [from |-> now - DayLong * (Day(now) - Monday), to |-> now]
    BY <1>8, Zenon DEF DetectTimeIntent
  <2> QED
    BY <1>1, <1>5, <1>8, <2>1, Weeks, Zenon
<1>9. CASE q.kind = "days ago"
  <2>1. r = Days(Day(now) - q.n, Day(now) - q.n)
    BY <1>9, Zenon DEF DetectTimeIntent
  <2>2. r.from <= now /\ r.from <= r.to
    BY <1>1, <1>2, <2>1, OneDay, Zenon
  <2> QED
    BY <1>9, <2>2, Zenon DEF RangeIsPast
<1>10. CASE q.kind = "early month"
  <2>1. r = YearBefore(Days(Date(ThisYear, q.month, 1), Date(ThisYear, q.month, 10)))
    BY <1>10, Zenon DEF DetectTimeIntent
  <2> QED
    BY <1>1, <1>2, <1>5, <1>10, <2>1, MonthParts, Zenon
<1>11. CASE q.kind = "mid month"
  <2>1. r = YearBefore(Days(Date(ThisYear, q.month, 8), Date(ThisYear, q.month, 20)))
    BY <1>11, Zenon DEF DetectTimeIntent
  <2> QED
    BY <1>1, <1>2, <1>5, <1>11, <2>1, MonthParts, Zenon
<1>12. CASE q.kind = "late month"
  <2>1. r = YearBefore(Days(Date(ThisYear, q.month, 18), Date(ThisYear, q.month + 1, 1) - 1))
    BY <1>12, Zenon DEF DetectTimeIntent
  <2> QED
    BY <1>1, <1>2, <1>5, <1>12, <2>1, MonthParts, Zenon
<1>13. CASE q.kind = "month"
  <2>1. r = YearBefore(Days(Date(ThisYear, q.month, 1), Date(ThisYear, q.month + 1, 1) - 1))
    BY <1>13, Zenon DEF DetectTimeIntent
  <2>2. /\ Ordered(r, now) /\ r.to + DayLong * 365 > now
        /\ Day(r.to + 1) - Day(r.from) = MonthStart[q.month + 1] - MonthStart[q.month]
    BY <1>1, <1>2, <2>1, MonthParts, Zenon
  <2> QED
    BY <1>13, <2>2, Zenon DEF RangeIsPast, Ordered
<1>14. CASE q.kind = "date"
  <2> DEFINE d == Date(ThisYear, q.month, q.day)
  <2>1. r = Days(d - 365, d - 365) \/ r = Days(d, d)
    BY <1>14, Zenon DEF DetectTimeIntent
  <2>2. d \in Nat
    BY <1>2, <1>4, DateBounds, Zenon
  <2> HIDE DEF d, r
  <2>3. r.from <= r.to
    <3>1. CASE r = Days(d, d)
      BY <2>2, <3>1, OneDate, Zenon
    <3>2. CASE r = Days(d - 365, d - 365)
      <4> DEFINE u == Days(d - 365, d - 365)
      <4>1. u.from <= u.to
        BY <2>2, OneDate, Zenon
      <4> HIDE DEF u
      <4> QED
        BY <3>2, <4>1, Zenon DEF u
    <3> QED
      BY <2>1, <3>1, <3>2, Zenon
  <2> QED
    BY <1>14, <2>3, Zenon DEF RangeIsPast, r
<1>15. CASE q.kind = "dates"
  <2> DEFINE a == Date(ThisYear, q.month, q.day)
             b == Date(ThisYear, q.month2, q.day2)
             p == [from |-> Midnight(a), to |-> Midnight(b + 1) - 1]
  <2>1. r = IF p.from > now THEN Shift(p, -365) ELSE p
    BY <1>15, Zenon DEF DetectTimeIntent
  <2>2. a \in Nat /\ b \in Nat /\ a < 365 * ThisYear + 365
    <3>1. a \in Nat /\ a < 365 * ThisYear + 365
      <4>1. a \in Nat
        BY <1>2, <1>4, DateBounds, Zenon
      <4>2. a < 365 * ThisYear + 365
        BY <1>2, <1>4, DateBounds, Zenon
      <4> QED
        BY <4>1, <4>2, Zenon
    <3>2. b \in Nat
      BY <1>2, <1>4, DateBounds, Zenon
    <3> QED
      BY <3>1, <3>2, Zenon
  <2>3. Date(0, q.month, q.day) <= Date(0, q.month2, q.day2) => a <= b
    BY <1>2, <1>4, SameYear, Zenon
  <2> HIDE DEF a, b
  <2> DEFINE s == IF p.from > now THEN Shift(p, -365) ELSE p
  <2>4. s.from <= now /\ (a <= b => s.from <= s.to)
    BY <1>1, <2>2, TwoDates, Zenon
  <2>5. r = s
    BY <2>1, Zenon
  <2> HIDE DEF r, s
  <2>6. r.from <= now /\ (a <= b => r.from <= r.to)
    BY <2>4, <2>5, Zenon
  <2> QED
    BY <1>15, <2>3, <2>6, Zenon DEF RangeIsPast, r
<1>16. CASE q.kind = "full date"
  <2>1. r = Days(q.n, q.n)
    BY <1>16, Zenon DEF DetectTimeIntent
  <2>2. r.from <= r.to
    BY <1>2, <2>1, OneDate, Zenon
  <2> QED
    BY <1>16, <2>2, Zenon DEF RangeIsPast
<1> QED
  BY <1>3, <1>6, <1>7, <1>8, <1>9, <1>10, <1>11, <1>12, <1>13, <1>14, <1>15, <1>16, Zenon

TimesInv == now \in Now /\ TimesAsSaid

\* RangeIsPast at a time that is given.
PastAt(t, q, r) ==
    /\ q.kind \notin {"date", "full date"} => r.from <= t
    /\ q.kind \notin {"date", "full date", "dates", "days ago"} => r.to <= t
    /\ q.kind # "dates" \/ Date(0, q.month, q.day) <= Date(0, q.month2, q.day2) => r.from <= r.to
    /\ q.kind = "month" =>
         /\ r.to + DayLong * 365 > t
         /\ Day(r.to + 1) - Day(r.from) = MonthStart[q.month + 1] - MonthStart[q.month]

LEMMA TimesBegins == TimesInit => TimesInv
BY DEF TimesInit, TimesInv, TimesAsSaid, NothingParsed

LEMMA TimesUnchanged ==
    ASSUME TimesInv, UNCHANGED timeVars
    PROVE  TimesInv'
<1>1. now' = now /\ parsed' = parsed
  BY DEF timeVars
<1>2. ASSUME parsed.what = "reminder"
      PROVE  DueAsSaid(parsed.phrase, parsed.at)'
  BY <1>1, <1>2, Zenon DEF TimesInv, TimesAsSaid, DueAsSaid
<1>3. ASSUME parsed.what = "range"
      PROVE  RangeIsPast(parsed.phrase, parsed.range)'
  BY <1>1, <1>3, Zenon DEF TimesInv, TimesAsSaid, RangeIsPast
<1> QED
  BY <1>1, <1>2, <1>3, Zenon DEF TimesInv, TimesAsSaid

LEMMA TimesKeeps ==
    ASSUME TimesInv, TimesNext
    PROVE  TimesInv'
<1>1. ASSUME NEW p \in Reminder, ParseReminder(p)
      PROVE  TimesInv'
  <2> DEFINE at == ParseReminderTime(p)
  <2>1. now' = now /\ parsed' = [what |-> "reminder", phrase |-> p, at |-> at]
    BY <1>1, Zenon DEF ParseReminder
  <2>2. DueAsSaid(p, at)
    BY Reminded, Zenon DEF TimesInv
  <2> HIDE DEF at
  <2>3. parsed'.what = "reminder" /\ parsed'.phrase = p /\ parsed'.at = at
    BY <2>1
  <2>4. parsed'.what # "range"
    BY <2>3
  <2> QED
    BY <2>1, <2>2, <2>3, <2>4, Zenon DEF TimesInv, TimesAsSaid, DueAsSaid
<1>2. ASSUME NEW q \in Asking, ParseQuestion(q)
      PROVE  TimesInv'
  <2> DEFINE r == DetectTimeIntent(q)
  <2>1. now' = now /\ parsed' = [what |-> "range", phrase |-> q, range |-> r]
    BY <1>2, Zenon DEF ParseQuestion
  <2>2. RangeIsPast(q, r)
    BY Ranged, Zenon DEF TimesInv
  <2> HIDE DEF r
  <2>3. parsed'.what = "range" /\ parsed'.phrase = q /\ parsed'.range = r
    BY <2>1
  <2>4. parsed'.what # "reminder"
    BY <2>3
  <2>5. RangeIsPast(parsed.phrase, parsed.range)'
    <3>1. PastAt(now, q, r)
      BY <2>2, Zenon DEF PastAt, RangeIsPast
    <3>2. PastAt(now', parsed'.phrase, parsed'.range)
      BY <2>1, <2>3, <3>1, Zenon
    <3> QED
      BY <3>2, Zenon DEF PastAt, RangeIsPast
  <2> QED
    BY <2>1, <2>4, <2>5, Zenon DEF TimesInv, TimesAsSaid
<1> QED
  BY <1>1, <1>2, Zenon DEF TimesNext

-----------------------------------------------------------------------------
(* McpServer: the requests in their order, the store that they make, and    *)
(* the steps of the server and of its client.                               *)

LEMMA SameNumber == \A S : Serving!Cardinality(S) = Cardinality(S)
BY Zenon DEF Cardinality, IsFiniteSet, Serving!Cardinality, Serving!IsFiniteSet

Below(places, n) == {m \in places : m < n}

LEMMA SomeBelow ==
    ASSUME NEW S \in SUBSET Nat, IsFiniteSet(S), NEW n \in S
    PROVE  /\ IsFiniteSet(Below(S, n)) /\ Cardinality(Below(S, n)) \in Nat
           /\ Cardinality(Below(S, n)) < Cardinality(S)
           /\ \A m \in S : m < n => Cardinality(Below(S, m)) < Cardinality(Below(S, n))
<1>1. Below(S, n) \in SUBSET (S \ {n})
  BY DEF Below
<1>2. IsFiniteSet(S \ {n}) /\ Cardinality(S \ {n}) = Cardinality(S) - 1 /\ Cardinality(S) \in Nat
  BY FS_RemoveElement, FS_CardinalityType
<1>3. IsFiniteSet(Below(S, n)) /\ Cardinality(Below(S, n)) <= Cardinality(S \ {n})
  BY <1>1, <1>2, FS_Subset
<1>4. Cardinality(Below(S, n)) \in Nat
  BY <1>3, FS_CardinalityType
<1>5. ASSUME NEW m \in S, m < n
      PROVE  Cardinality(Below(S, m)) < Cardinality(Below(S, n))
  <2>1. Below(S, m) \in SUBSET (Below(S, n) \ {m}) /\ m \in Below(S, n)
    <3>1. m \in Nat /\ n \in Nat /\ \A x \in S : x \in Nat
      OBVIOUS
    <3>2. \A x \in S : x < m => x < n /\ x # m
      BY <1>5, <3>1
    <3> QED
      BY <1>5, <3>2 DEF Below
  <2>2. IsFiniteSet(Below(S, n) \ {m})
        /\ Cardinality(Below(S, n) \ {m}) = Cardinality(Below(S, n)) - 1
    BY <1>3, <2>1, FS_RemoveElement
  <2>3. IsFiniteSet(Below(S, m))
        /\ Cardinality(Below(S, m)) <= Cardinality(Below(S, n) \ {m})
    BY <2>1, <2>2, FS_Subset
  <2>4. Cardinality(Below(S, m)) \in Nat
    BY <2>3, FS_CardinalityType
  <2> QED
    BY <1>4, <2>2, <2>3, <2>4
<1> QED
  BY <1>2, <1>3, <1>4, <1>5

LEMMA EveryRank ==
    ASSUME NEW S \in SUBSET Nat, IsFiniteSet(S)
    PROVE  /\ \A m, n \in S : Cardinality(Below(S, m)) = Cardinality(Below(S, n)) => m = n
           /\ \A i \in 1 .. Cardinality(S) : \E n \in S : Cardinality(Below(S, n)) = i - 1
<1> DEFINE rank == [n \in S |-> Cardinality(Below(S, n))]
<1>1. Cardinality(S) \in Nat
  BY FS_CardinalityType
<1>2. \A n \in S : Cardinality(Below(S, n)) \in Nat /\ Cardinality(Below(S, n)) < Cardinality(S)
  BY SomeBelow
<1>3. ASSUME NEW m \in S, NEW n \in S, Cardinality(Below(S, m)) = Cardinality(Below(S, n))
      PROVE  m = n
  <2>1. ~(m < n)
    BY <1>2, <1>3, SomeBelow
  <2>2. ~(n < m)
    BY <1>2, <1>3, SomeBelow
  <2> QED
    BY <2>1, <2>2
<1> DEFINE R == 0 .. (Cardinality(S) - 1)
<1>4. \A n \in S : Cardinality(Below(S, n)) \in R
  BY <1>1, <1>2
<1>5. IsFiniteSet(R) /\ Cardinality(R) = Cardinality(S)
  <2>1. Cardinality(S) - 1 \in Int
    BY <1>1
  <2> QED
    BY <1>1, <2>1, FS_Interval
<1> HIDE DEF R
<1>6. rank \in Injection(S, R)
  <2>1. rank \in [S -> R] /\ \A m, n \in S : rank[m] = rank[n] => m = n
    BY <1>3, <1>4
  <2> HIDE DEF rank
  <2> QED
    BY <2>1 DEF Injection, IsInjective
<1>7. \A j \in R : \E n \in S : rank[n] = j
  <2> HIDE DEF rank
  <2>1. rank \in Surjection(S, R)
    BY <1>5, <1>6, FS_Injection
  <2> QED
    BY <2>1 DEF Surjection
<1>8. \A i \in 1 .. Cardinality(S) : i - 1 \in R
  BY <1>1 DEF R
<1>9. \A j \in R : \E n \in S : Cardinality(Below(S, n)) = j
  BY <1>7
<1>10. \A i \in 1 .. Cardinality(S) : \E n \in S : Cardinality(Below(S, n)) = i - 1
  BY <1>8, <1>9
<1> QED
  BY <1>3, <1>10

\* The places of a set in order.
LEMMA PlacesInOrder ==
    ASSUME NEW S \in SUBSET Nat, IsFiniteSet(S)
    PROVE  /\ Serving!InOrder(S) \in Seq(S)
           /\ \A i, j \in DOMAIN Serving!InOrder(S) :
                i < j => Serving!InOrder(S)[i] < Serving!InOrder(S)[j]
           /\ {Serving!InOrder(S)[i] : i \in DOMAIN Serving!InOrder(S)} = S
<1> DEFINE at(i) == CHOOSE n \in S : Cardinality(Below(S, n)) = i - 1
           k == Cardinality(S)
           q == [i \in 1 .. k |-> at(i)]
<1>1. k \in Nat
  BY FS_CardinalityType
<1>2. Serving!InOrder(S) = q
  BY Zenon DEF Serving!InOrder, Below, Cardinality, IsFiniteSet, Serving!Cardinality,
     Serving!IsFiniteSet
<1>3. \A i \in 1 .. k : at(i) \in S /\ Cardinality(Below(S, at(i))) = i - 1
  <2>1. \A i \in 1 .. k : \E n \in S : Cardinality(Below(S, n)) = i - 1
    BY EveryRank
  <2> HIDE DEF k
  <2> QED
    BY <2>1
<1> HIDE DEF at
<1>4. \A i, j \in 1 .. k : i < j => at(i) < at(j)
  <2> SUFFICES ASSUME NEW i \in 1 .. k, NEW j \in 1 .. k, i < j
               PROVE  at(i) < at(j)
    BY Zenon
  <2> DEFINE a == at(i)
             b == at(j)
  <2>1. /\ a \in S /\ Cardinality(Below(S, a)) = i - 1
        /\ b \in S /\ Cardinality(Below(S, b)) = j - 1
    BY <1>3
  <2> HIDE DEF k, a, b
  <2>2. i \in Int /\ j \in Int /\ a \in Nat /\ b \in Nat
    BY <1>1, <2>1
  <2>3. b < a => Cardinality(Below(S, b)) < Cardinality(Below(S, a))
    BY <2>1, SomeBelow
  <2>4. a # b /\ ~(b < a)
    BY <2>1, <2>2, <2>3
  <2>5. a < b
    BY <2>2, <2>4
  <2> QED
    BY <2>5 DEF a, b
<1>5. \A n \in S : \E i \in 1 .. k : at(i) = n
  <2> TAKE n \in S
  <2> DEFINE i == Cardinality(Below(S, n)) + 1
  <2>1. i \in 1 .. k /\ i - 1 = Cardinality(Below(S, n))
    BY <1>1, SomeBelow
  <2> HIDE DEF i, k
  <2>2. at(i) \in S /\ Cardinality(Below(S, at(i))) = Cardinality(Below(S, n))
    BY <1>3, <2>1
  <2>3. at(i) = n
    BY <2>2, EveryRank
  <2> QED
    BY <2>1, <2>3
<1> HIDE DEF k
<1>6. q \in Seq(S) /\ DOMAIN q = 1 .. k /\ \A i \in 1 .. k : q[i] = at(i)
  BY <1>1, <1>3
<1> HIDE DEF q
<1>7. {q[i] : i \in DOMAIN q} = S
  <2>1. \A i \in DOMAIN q : q[i] \in S
    BY <1>3, <1>6
  <2>2. \A n \in S : \E i \in DOMAIN q : q[i] = n
    BY <1>5, <1>6
  <2> QED
    BY <2>1, <2>2, Zenon
<1>8. \A i, j \in DOMAIN q : i < j => q[i] < q[j]
  BY <1>4, <1>6
<1> QED
  BY <1>2, <1>6, <1>7, <1>8

StoreType ==
    [memories : SUBSET Content, states : SUBSET Content, reminders : Seq(Content),
     queue : Seq(Content)]

\* What a call makes of the memories, of the states and of a list.
Remembers(known, tool, c) ==
    IF c = NoContent THEN known
    ELSE IF tool = "memory_write" THEN known \cup {c}
    ELSE IF tool = "memory_delete" THEN known \ {c}
    ELSE known
StatesAfter(set, tool, c) ==
    IF tool = "memory_state_set" /\ c # NoContent THEN set \cup {c} ELSE set
ListAfter(list, name, tool, c) == IF tool = name /\ c # NoContent THEN Append(list, c) ELSE list

\* What a call tells, if it tells anything of the store.
ToldBy(s, tool, c) ==
    CASE tool \in {"memory_list", "memory_timeline"} -> s.memories
      [] tool \in {"memory_read", "memory_search"} -> s.memories \cap {c}
      [] tool = "memory_state_get" -> IF c = NoContent THEN s.states ELSE s.states \cap {c}

ReadingTools == {"memory_list", "memory_timeline", "memory_read", "memory_search", "memory_state_get"}

CallIsRight(s, tool, c, called) ==
    /\ called.store =
         [memories |-> Remembers(s.memories, tool, c), states |-> StatesAfter(s.states, tool, c),
          reminders |-> ListAfter(s.reminders, "memory_remind", tool, c),
          queue |-> ListAfter(s.queue, "memory_graduate", tool, c)]
    /\ tool \in ReadingTools => called.found = ToldBy(s, tool, c)

LEMMA CallIs ==
    ASSUME NEW s \in StoreType, NEW tool, NEW c \in Content \cup {NoContent}
    PROVE  CallIsRight(s, tool, c, Serving!Called(s, tool, c))
<1> DEFINE called == Serving!Called(s, tool, c)
<1>0. /\ s = [memories |-> s.memories, states |-> s.states, reminders |-> s.reminders,
              queue |-> s.queue]
      /\ s.memories \subseteq Content /\ s.states \subseteq Content
  BY DEF StoreType
<1>01. c # NoContent => c \in Content
  OBVIOUS
<1>02. c \in s.memories => c # NoContent
  BY <1>0, UpkeepAssumption
<1>03. c \in s.states => c # NoContent
  BY <1>0, UpkeepAssumption
<1>1. CASE tool = "memory_search"
  <2>1. called = Serving!toolSearch(s, c)
    BY <1>1, Zenon DEF Serving!Called
  <2>2. called.store = s /\ called.found = s.memories \cap {c}
    <3>1. CASE c = NoContent
      <4>1. called.store = s /\ called.found = {}
        BY <2>1, <3>1 DEF Serving!toolSearch, Serving!Fails
      <4>2. s.memories \cap {c} = {}
        BY <1>02, <3>1, Zenon
      <4> QED
        BY <4>1, <4>2, Zenon
    <3>2. CASE c # NoContent
      <4>1. called = Serving!Tells(s, {c} \cap s.memories)
        BY <2>1, <3>2, Zenon DEF Serving!toolSearch
      <4>2. called.store = s /\ called.found = {c} \cap s.memories
        BY <4>1 DEF Serving!Tells
      <4> QED
        BY <4>2, Zenon
    <3> QED
      BY <3>1, <3>2, Zenon
  <2> HIDE DEF called
  <2>3. /\ Remembers(s.memories, tool, c) = s.memories /\ StatesAfter(s.states, tool, c) = s.states
        /\ ListAfter(s.reminders, "memory_remind", tool, c) = s.reminders
        /\ ListAfter(s.queue, "memory_graduate", tool, c) = s.queue
    BY <1>1, SMT DEF Remembers, StatesAfter, ListAfter
  <2>4. ToldBy(s, tool, c) = s.memories \cap {c}
    BY <1>1, SMT DEF ToldBy
  <2> QED
    BY <1>0, <2>2, <2>3, <2>4, SMT DEF CallIsRight, called
<1>2. CASE tool \in {"memory_list", "memory_timeline"}
  <2>1. called = Serving!Tells(s, s.memories)
    BY <1>2, Zenon DEF Serving!Called, Serving!toolList, Serving!toolTimeline
  <2> QED
    BY <1>0, <1>2, <2>1 DEF Serving!Tells, CallIsRight, Remembers, StatesAfter, ListAfter, ToldBy, ReadingTools
<1>3. CASE tool = "memory_read"
  <2>1. called = Serving!toolRead(s, c)
    BY <1>3, Zenon DEF Serving!Called
  <2> QED
    BY <1>0, <1>3, <2>1 DEF Serving!toolRead, Serving!Tells, Serving!Fails, CallIsRight, Remembers,
       StatesAfter, ListAfter, ToldBy, ReadingTools
<1>4. CASE tool = "memory_write"
  <2>1. called = Serving!toolWrite(s, c)
    BY <1>4, Zenon DEF Serving!Called
  <2> QED
    BY <1>0, <1>4, <2>1 DEF Serving!toolWrite, Serving!Tells, Serving!Fails, CallIsRight, Remembers,
       StatesAfter, ListAfter, ReadingTools
<1>5. CASE tool = "memory_delete"
  <2>1. called = Serving!toolDelete(s, c)
    BY <1>5, Zenon DEF Serving!Called
  <2> QED
    BY <1>0, <1>02, <1>5, <2>1 DEF Serving!toolDelete, Serving!Tells, Serving!Fails, CallIsRight,
       Remembers, StatesAfter, ListAfter, ReadingTools
<1>6. CASE tool = "memory_remind"
  <2> DEFINE longer == Append(s.reminders, c)
  <2>1. called = Serving!toolRemind(s, c)
    BY <1>6, Zenon DEF Serving!Called
  <2>2. c # NoContent => called.store = [s EXCEPT !.reminders = longer]
    BY <2>1 DEF Serving!toolRemind, Serving!Tells
  <2>3. c = NoContent => called.store = s
    BY <2>1 DEF Serving!toolRemind, Serving!Tells, Serving!Fails
  <2>4. /\ Remembers(s.memories, tool, c) = s.memories /\ StatesAfter(s.states, tool, c) = s.states
        /\ ListAfter(s.queue, "memory_graduate", tool, c) = s.queue
        /\ ListAfter(s.reminders, "memory_remind", tool, c) = IF c = NoContent THEN s.reminders ELSE longer
    BY <1>6, Zenon DEF Remembers, StatesAfter, ListAfter
  <2> HIDE DEF longer
  <2>5. called.store = [s EXCEPT !.reminders = IF c = NoContent THEN s.reminders ELSE longer]
    BY <1>0, <2>2, <2>3
  <2>6. tool \notin ReadingTools
    BY <1>6 DEF ReadingTools
  <2> HIDE DEF called
  <2>7. CallIsRight(s, tool, c, called)
    BY <1>0, <2>4, <2>5, <2>6 DEF CallIsRight
  <2> QED
    BY <2>7 DEF called
<1>7. CASE tool = "memory_state_get"
  <2>1. called = Serving!toolStateGet(s, c)
    BY <1>7, Zenon DEF Serving!Called
  <2> QED
    BY <1>0, <1>7, <2>1 DEF Serving!toolStateGet, Serving!Tells, Serving!Fails, CallIsRight,
       Remembers, StatesAfter, ListAfter, ToldBy, ReadingTools
<1>8. CASE tool = "memory_state_set"
  <2>1. called = Serving!toolStateSet(s, c)
    BY <1>8, Zenon DEF Serving!Called
  <2> QED
    BY <1>0, <1>8, <2>1 DEF Serving!toolStateSet, Serving!Tells, Serving!Fails, CallIsRight,
       Remembers, StatesAfter, ListAfter, ReadingTools
<1>9. CASE tool = "memory_graduate"
  <2> DEFINE longer == Append(s.queue, c)
  <2>1. called = Serving!toolGraduate(s, c)
    BY <1>9, Zenon DEF Serving!Called
  <2>2. c # NoContent => called.store = [s EXCEPT !.queue = longer]
    BY <2>1 DEF Serving!toolGraduate, Serving!Tells
  <2>3. c = NoContent => called.store = s
    BY <2>1 DEF Serving!toolGraduate, Serving!Tells, Serving!Fails
  <2>4. /\ Remembers(s.memories, tool, c) = s.memories /\ StatesAfter(s.states, tool, c) = s.states
        /\ ListAfter(s.reminders, "memory_remind", tool, c) = s.reminders
        /\ ListAfter(s.queue, "memory_graduate", tool, c) = IF c = NoContent THEN s.queue ELSE longer
    BY <1>9, Zenon DEF Remembers, StatesAfter, ListAfter
  <2> HIDE DEF longer
  <2>5. called.store = [s EXCEPT !.queue = IF c = NoContent THEN s.queue ELSE longer]
    BY <1>0, <2>2, <2>3
  <2>6. tool \notin ReadingTools
    BY <1>9 DEF ReadingTools
  <2> HIDE DEF called
  <2>7. CallIsRight(s, tool, c, called)
    BY <1>0, <2>4, <2>5, <2>6 DEF CallIsRight
  <2> QED
    BY <2>7 DEF called
<1>10. CASE tool \notin {"memory_search", "memory_list", "memory_timeline", "memory_read",
                         "memory_write", "memory_delete", "memory_remind", "memory_state_get",
                         "memory_state_set", "memory_graduate"}
  <2>1. called.store = s
    BY <1>10 DEF Serving!Called, Serving!toolSessions, Serving!Tells, Serving!Fails
  <2> QED
    BY <1>0, <1>10, <2>1 DEF CallIsRight, Remembers, StatesAfter, ListAfter, ReadingTools
<1> QED
  BY <1>1, <1>2, <1>3, <1>4, <1>5, <1>6, <1>7, <1>8, <1>9, <1>10

LEMMA CallKeeps ==
    ASSUME NEW s \in StoreType, NEW tool, NEW c \in Content \cup {NoContent}
    PROVE  Serving!Called(s, tool, c).store \in StoreType
<1>1. /\ s.memories \subseteq Content /\ s.states \subseteq Content
      /\ s.reminders \in Seq(Content) /\ s.queue \in Seq(Content)
  BY DEF StoreType
<1>2. /\ Remembers(s.memories, tool, c) \in SUBSET Content
      /\ StatesAfter(s.states, tool, c) \in SUBSET Content
      /\ ListAfter(s.reminders, "memory_remind", tool, c) \in Seq(Content)
      /\ ListAfter(s.queue, "memory_graduate", tool, c) \in Seq(Content)
  BY <1>1 DEF Remembers, StatesAfter, ListAfter
<1> DEFINE m == Remembers(s.memories, tool, c)
           st == StatesAfter(s.states, tool, c)
           r == ListAfter(s.reminders, "memory_remind", tool, c)
           q == ListAfter(s.queue, "memory_graduate", tool, c)
<1>3. Serving!Called(s, tool, c).store = [memories |-> m, states |-> st, reminders |-> r, queue |-> q]
  BY CallIs, Zenon DEF CallIsRight
<1> HIDE DEF m, st, r, q
<1>4. [memories |-> m, states |-> st, reminders |-> r, queue |-> q] \in StoreType
  BY <1>2 DEF StoreType, m, st, r, q
<1> QED
  BY <1>3, <1>4

\* A request is a call of a tool with an argument.
IsCall(r, tools, c) == r.tool \in tools /\ r.content = c

\* What was asked for up to n is what was asked for before, and n.
LEMMA ByStep ==
    ASSUME NEW requests, NEW n \in Nat, n # 0, NEW tools, NEW c
    PROVE  Serving!By(requests, n, tools, c) =
             Serving!By(requests, n - 1, tools, c)
               \cup (IF IsCall(requests[n], tools, c) THEN {n} ELSE {})
BY DEF Serving!By, IsCall

LEMMA ByType ==
    ASSUME NEW requests, NEW n \in Nat, NEW tools, NEW c
    PROVE  /\ Serving!By(requests, n, tools, c) \subseteq 1 .. n
           /\ IsFiniteSet(Serving!By(requests, n, tools, c))
           /\ Cardinality(Serving!By(requests, n, tools, c)) \in Nat
<1>1. Serving!By(requests, n, tools, c) \in SUBSET (1 .. n)
  BY DEF Serving!By
<1>2. IsFiniteSet(1 .. n)
  BY FS_Interval
<1> QED
  BY <1>1, <1>2, FS_Subset, FS_CardinalityType

LEMMA ByCount ==
    ASSUME NEW requests, NEW n \in Nat, n # 0, NEW tools, NEW c
    PROVE  Cardinality(Serving!By(requests, n, tools, c)) =
             Cardinality(Serving!By(requests, n - 1, tools, c))
               + IF IsCall(requests[n], tools, c) THEN 1 ELSE 0
<1> DEFINE B == Serving!By(requests, n - 1, tools, c)
<1>1. n - 1 \in Nat
  OBVIOUS
<1>2. B \subseteq 1 .. (n - 1) /\ IsFiniteSet(B) /\ Cardinality(B) \in Nat
  BY <1>1, ByType
<1>3. n \notin B
  BY <1>2
<1>4. Cardinality(B \cup {n}) = Cardinality(B) + 1
  BY <1>2, <1>3, FS_AddElement
<1>5. Serving!By(requests, n, tools, c) = B \cup (IF IsCall(requests[n], tools, c) THEN {n} ELSE {})
  BY ByStep
<1> HIDE DEF B
<1>6. CASE IsCall(requests[n], tools, c)
  <2>1. Serving!By(requests, n, tools, c) = B \cup {n}
    BY <1>5, <1>6
  <2> QED
    BY <1>4, <1>6, <2>1 DEF B
<1>7. CASE ~ IsCall(requests[n], tools, c)
  <2>1. Serving!By(requests, n, tools, c) = B
    BY <1>5, <1>7
  <2> QED
    BY <1>2, <1>7, <2>1 DEF B
<1> QED
  BY <1>6, <1>7

\* Between m and n nothing was asked for.
LEMMA ByGap ==
    ASSUME NEW requests, NEW m \in Nat, NEW n \in Nat, m <= n, NEW tools, NEW c,
           \A k \in 1 .. n : m < k => ~ IsCall(requests[k], tools, c)
    PROVE  Serving!By(requests, n, tools, c) = Serving!By(requests, m, tools, c)
BY DEF Serving!By, IsCall

LEMMA ByMore ==
    ASSUME NEW requests, NEW m \in Nat, NEW n \in Nat, m <= n, NEW tools, NEW c
    PROVE  Cardinality(Serving!By(requests, m, tools, c))
             <= Cardinality(Serving!By(requests, n, tools, c))
<1>1. Serving!By(requests, m, tools, c) \in SUBSET Serving!By(requests, n, tools, c)
  BY DEF Serving!By
<1> QED
  BY <1>1, ByType, FS_Subset

\* Later requests change nothing.
LEMMA ByAppend ==
    ASSUME NEW R, NEW requests \in Seq(R), NEW r, NEW n \in 0 .. Len(requests), NEW tools, NEW c
    PROVE  Serving!By(Append(requests, r), n, tools, c) = Serving!By(requests, n, tools, c)
<1>1. \A k \in 1 .. n : Append(requests, r)[k] = requests[k]
  OBVIOUS
<1> QED
  BY <1>1 DEF Serving!By

WritingTools == {"memory_write", "memory_delete"}

\* What the last request makes of the memories and of the states is what its tool does.
LEMMA WrittenStep ==
    ASSUME NEW requests, NEW n \in Nat, n # 0, requests[n].content \in Content \cup {NoContent}
    PROVE  Serving!WrittenBy(requests, n) =
             Remembers(Serving!WrittenBy(requests, n - 1), requests[n].tool, requests[n].content)
<1> DEFINE t == requests[n].tool
           a == requests[n].content
           W(m) == Serving!WrittenBy(requests, m)
           About(m, c) == Serving!By(requests, m, WritingTools, c)
           Is(m, c) == \E k \in About(m, c) :
                         requests[k].tool = "memory_write" /\ \A j \in About(m, c) : j <= k
<1>1. \A m : W(m) = {c \in Content : Is(m, c)}
  BY Zenon DEF Serving!WrittenBy, WritingTools
<1>2. \A c : About(n, c) = About(n - 1, c) \cup (IF IsCall(requests[n], WritingTools, c) THEN {n} ELSE {})
  BY ByStep
<1>3. \A c : About(n - 1, c) \subseteq 1 .. (n - 1)
  <2>1. n - 1 \in Nat
    OBVIOUS
  <2> QED
    BY <2>1, ByType
<1> HIDE DEF W, About
<1>4. ASSUME NEW c, ~ IsCall(requests[n], WritingTools, c)
      PROVE  Is(n, c) <=> Is(n - 1, c)
  BY <1>2, <1>4, Zenon
<1>5. ASSUME NEW c, IsCall(requests[n], WritingTools, c)
      PROVE  Is(n, c) <=> t = "memory_write"
  <2>1. About(n, c) = About(n - 1, c) \cup {n}
    BY <1>2, <1>5, Zenon
  <2>2. \A j \in About(n, c) : j <= n /\ (n <= j => j = n)
    BY <1>3, <2>1
  <2>3. n \in About(n, c)
    BY <2>1
  <2> QED
    BY <2>2, <2>3, Zenon
<1> HIDE DEF Is
<1>6. W(n) \subseteq Content /\ W(n - 1) \subseteq Content
  BY <1>1
<1>7. CASE a # NoContent /\ t = "memory_write"
  <2>1. \A c : IsCall(requests[n], WritingTools, c) <=> c = a
    BY <1>7 DEF IsCall, WritingTools
  <2>2. a \in Content
    BY <1>7
  <2>3. W(n) = W(n - 1) \cup {a}
    BY <1>1, <1>4, <1>5, <1>7, <2>1, <2>2
  <2> QED
    BY <1>7, <2>3 DEF W, Remembers
<1>8. CASE a # NoContent /\ t = "memory_delete"
  <2>1. \A c : IsCall(requests[n], WritingTools, c) <=> c = a
    BY <1>8 DEF IsCall, WritingTools
  <2>2. a \in Content /\ t # "memory_write"
    BY <1>8
  <2>3. W(n) = W(n - 1) \ {a}
    BY <1>1, <1>4, <1>5, <1>8, <2>1, <2>2
  <2> QED
    BY <1>8, <2>2, <2>3 DEF W, Remembers
<1>9. CASE a = NoContent \/ t \notin WritingTools
  <2>1. \A c \in Content : ~ IsCall(requests[n], WritingTools, c)
    BY <1>9, UpkeepAssumption DEF IsCall
  <2>2. W(n) = W(n - 1)
    BY <1>1, <1>4, <2>1
  <2> QED
    BY <1>9, <2>2 DEF W, Remembers, WritingTools
<1> QED
  BY <1>7, <1>8, <1>9 DEF WritingTools

LEMMA SetStep ==
    ASSUME NEW requests, NEW n \in Nat, n # 0, requests[n].content \in Content \cup {NoContent}
    PROVE  Serving!SetBy(requests, n) =
             StatesAfter(Serving!SetBy(requests, n - 1), requests[n].tool, requests[n].content)
<1> DEFINE t == requests[n].tool
           a == requests[n].content
           S(m) == Serving!SetBy(requests, m)
           About(m, c) == Serving!By(requests, m, {"memory_state_set"}, c)
<1>1. \A m : S(m) = {c \in Content : About(m, c) # {}}
  BY Zenon DEF Serving!SetBy
<1>2. \A c : About(n, c) = About(n - 1, c)
               \cup (IF IsCall(requests[n], {"memory_state_set"}, c) THEN {n} ELSE {})
  BY ByStep
<1> HIDE DEF S, About
<1>3. CASE a # NoContent /\ t = "memory_state_set"
  <2>1. \A c : IsCall(requests[n], {"memory_state_set"}, c) <=> c = a
    BY <1>3 DEF IsCall
  <2>2. a \in Content
    BY <1>3
  <2>3. S(n) = S(n - 1) \cup {a}
    BY <1>1, <1>2, <2>1, <2>2
  <2> QED
    BY <1>3, <2>3 DEF S, StatesAfter
<1>4. CASE ~ (a # NoContent /\ t = "memory_state_set")
  <2>1. \A c \in Content : ~ IsCall(requests[n], {"memory_state_set"}, c)
    BY <1>4, UpkeepAssumption DEF IsCall
  <2>2. S(n) = S(n - 1)
    BY <1>1, <1>2, <2>1
  <2> QED
    BY <1>4, <2>2 DEF S, StatesAfter
<1> QED
  BY <1>3, <1>4

\* What holds for the requests up to m holds up to n when nothing was called in between.
NothingCalled(requests, m, n) ==
    \A k \in 1 .. n : m < k =>
      requests[k].tool \notin {"memory_write", "memory_delete", "memory_state_set",
                               "memory_remind", "memory_graduate"}

LEMMA SilentGap ==
    ASSUME NEW requests, NEW m \in Nat, NEW n \in Nat, m <= n, NothingCalled(requests, m, n)
    PROVE  /\ Serving!WrittenBy(requests, n) = Serving!WrittenBy(requests, m)
           /\ Serving!SetBy(requests, n) = Serving!SetBy(requests, m)
           /\ \A c : Serving!By(requests, n, {"memory_remind"}, c)
                        = Serving!By(requests, m, {"memory_remind"}, c)
           /\ \A c : Serving!By(requests, n, {"memory_graduate"}, c)
                        = Serving!By(requests, m, {"memory_graduate"}, c)
<1>1. ASSUME NEW tools, tools \in {WritingTools, {"memory_state_set"}, {"memory_remind"}, {"memory_graduate"}},
             NEW c
      PROVE  Serving!By(requests, n, tools, c) = Serving!By(requests, m, tools, c)
  <2>1. \A k \in 1 .. n : m < k => ~ IsCall(requests[k], tools, c)
    BY <1>1 DEF NothingCalled, WritingTools, IsCall
  <2> QED
    BY <2>1, ByGap
<1>2. \A c : /\ Serving!By(requests, n, {"memory_write", "memory_delete"}, c)
                  = Serving!By(requests, m, {"memory_write", "memory_delete"}, c)
             /\ Serving!By(requests, n, {"memory_state_set"}, c)
                  = Serving!By(requests, m, {"memory_state_set"}, c)
  BY <1>1 DEF WritingTools
<1>3. Serving!WrittenBy(requests, n) = Serving!WrittenBy(requests, m)
  BY <1>2, Zenon DEF Serving!WrittenBy
<1>4. Serving!SetBy(requests, n) = Serving!SetBy(requests, m)
  BY <1>2, Zenon DEF Serving!SetBy
<1>5. \A c : /\ Serving!By(requests, n, {"memory_remind"}, c)
                  = Serving!By(requests, m, {"memory_remind"}, c)
             /\ Serving!By(requests, n, {"memory_graduate"}, c)
                  = Serving!By(requests, m, {"memory_graduate"}, c)
  BY <1>1
<1> QED
  BY <1>3, <1>4, <1>5

LEMMA MadeIs ==
    ASSUME NEW list \in Seq(Content), NEW c
    PROVE  /\ IsFiniteSet({n \in DOMAIN list : list[n] = c})
           /\ Serving!Made(list, c) = Cardinality({n \in DOMAIN list : list[n] = c})
           /\ Serving!Made(list, c) \in Nat
<1>1. {n \in DOMAIN list : list[n] = c} \in SUBSET (1 .. Len(list)) /\ Len(list) \in Nat
  OBVIOUS
<1>2. IsFiniteSet(1 .. Len(list))
  BY <1>1, FS_Interval
<1>3. IsFiniteSet({n \in DOMAIN list : list[n] = c})
  BY <1>1, <1>2, FS_Subset
<1>4. Serving!Made(list, c) = Cardinality({n \in DOMAIN list : list[n] = c})
  BY SameNumber, Zenon DEF Serving!Made
<1> QED
  BY <1>3, <1>4, FS_CardinalityType

LEMMA NoneMade == \A c : Serving!Made(<<>>, c) = 0
<1>1. \A c : {n \in DOMAIN <<>> : <<>>[n] = c} = {}
  OBVIOUS
<1>2. \A c : Serving!Made(<<>>, c) = Cardinality({})
  BY <1>1, SameNumber, Zenon DEF Serving!Made
<1> QED
  BY <1>2, FS_EmptySet

LEMMA OneMade ==
    ASSUME NEW list \in Seq(Content), NEW x \in Content, NEW c
    PROVE  Serving!Made(Append(list, x), c) = Serving!Made(list, c) + IF x = c THEN 1 ELSE 0
<1> DEFINE longer == Append(list, x)
           k == Len(list) + 1
           S == {n \in DOMAIN list : list[n] = c}
           T == {n \in DOMAIN longer : longer[n] = c}
<1>1. longer \in Seq(Content) /\ Len(list) \in Nat
  OBVIOUS
<1>2. T = S \cup IF x = c THEN {k} ELSE {}
  <2>1. DOMAIN longer = (DOMAIN list) \cup {k} /\ longer[k] = x /\ \A n \in DOMAIN list : longer[n] = list[n]
    OBVIOUS
  <2> HIDE DEF longer, k
  <2> QED
    BY <2>1
<1>3. k \notin S
  OBVIOUS
<1>4. /\ IsFiniteSet(S) /\ Serving!Made(list, c) = Cardinality(S) /\ Cardinality(S) \in Nat
      /\ Serving!Made(longer, c) = Cardinality(T)
  BY <1>1, MadeIs
<1> HIDE DEF S, T, k
<1>5. Cardinality(S \cup {k}) = Cardinality(S) + 1
  BY <1>3, <1>4, FS_AddElement
<1>6. CASE x = c
  <2>1. T = S \cup {k}
    BY <1>2, <1>6, Zenon
  <2> QED
    BY <1>4, <1>5, <1>6, <2>1
<1>7. CASE x # c
  <2>1. T = S
    BY <1>2, <1>7
  <2> QED
    BY <1>4, <1>7, <2>1
<1> QED
  BY <1>6, <1>7

LEMMA ListedMade ==
    ASSUME NEW list \in Seq(Content), NEW name, NEW tool, NEW a \in Content \cup {NoContent},
           NEW c \in Content
    PROVE  Serving!Made(ListAfter(list, name, tool, a), c) =
             Serving!Made(list, c) + IF tool = name /\ a = c THEN 1 ELSE 0
<1>0. Serving!Made(list, c) \in Nat
  BY MadeIs
<1>1. CASE tool = name /\ a # NoContent
  <2>1. ListAfter(list, name, tool, a) = Append(list, a) /\ a \in Content
    BY <1>1, Zenon DEF ListAfter
  <2> QED
    BY <1>1, <2>1, OneMade
<1>2. CASE ~ (tool = name /\ a # NoContent)
  <2>1. ListAfter(list, name, tool, a) = list
    BY <1>2, Zenon DEF ListAfter
  <2>2. ~ (tool = name /\ a = c)
    BY <1>2, UpkeepAssumption
  <2> QED
    BY <1>0, <2>1, <2>2
<1> QED
  BY <1>1, <1>2

-----------------------------------------------------------------------------
(* The invariant *)

MethodNames == {"tools/call", "initialize", "prompts/list", "notifications/cancelled", "garbage"}
RequestType == [method : MethodNames, id : Nat, tool : Tool \cup {""}, content : Content \cup {NoContent}]
ReplyType == [of : Nat, id : Nat, kind : {"ok", "error"}, found : SUBSET Content]
HandlingType == [id : Nat, done : BOOLEAN, reply : Seq(ReplyType)]

RightRequest(r, n) ==
    /\ r \in RequestType /\ r.id \in {0, n}
    /\ r.id = 0 <=> r.method \in {"notifications/cancelled", "garbage"}
    /\ r.method # "tools/call" => r.tool = ""

\* The places that wait to be read, those that have no reply yet, and those whose tool is
\* still to be called.
Resting == handling = Serving!NoRequest
Waiting == {stdin[i] : i \in DOMAIN stdin}
Unreplied == Waiting \cup IF Resting THEN {} ELSE {handling.id}
Uncalled == Waiting \cup IF Resting \/ handling.done THEN {} ELSE {handling.id}

ServerTypeOK ==
    /\ sent \in Seq(RequestType) /\ \A n \in DOMAIN sent : RightRequest(sent[n], n)
    /\ stdin \in Seq(DOMAIN sent)
    /\ Resting \/ (handling \in HandlingType /\ handling.id \in DOMAIN sent)
    /\ stdout \in Seq(ReplyType)
    /\ store \in StoreType /\ kills \in Nat

\* What is to be done comes after what is answered.
OrderInv ==
    /\ \A i, j \in DOMAIN stdin : i < j => stdin[i] < stdin[j]
    /\ ~ Resting => \A n \in Waiting : handling.id < n
    /\ \A m \in DOMAIN stdout : \A n \in Unreplied : stdout[m].of < n
    /\ \A m, n \in DOMAIN stdout : m < n => stdout[m].of < stdout[n].of

\* Nothing with an id is forgotten, and what is told is right.
AnswersInv ==
    /\ \A n \in DOMAIN sent : sent[n].id # 0 =>
         n \in Unreplied \/ \E m \in DOMAIN stdout : stdout[m].id = n
    /\ \A m \in DOMAIN stdout :
         stdout[m].of \in DOMAIN sent /\ Serving!AnswerIsRight(sent, stdout[m])
    /\ handling.done =>
         \/ handling.reply = <<>> /\ sent[handling.id].id = 0
         \/ \E a \in ReplyType : /\ handling.reply = <<a>> /\ a.of = handling.id
                               /\ Serving!AnswerIsRight(sent, a)

\* A list has what was asked for, but for what was done more than once.
Promise(list, requests, e, tool, more, times) ==
    \A c \in Content :
      LET asked == Cardinality(Serving!By(requests, e, {tool}, c)) IN
        asked <= Serving!Made(list, c) /\ Serving!Made(list, c) + more <= asked + times

\* The store is what the requests up to e make of it; e may be called once more.
StoreIs(s, requests, e, more, times) ==
    /\ s.memories = Serving!WrittenBy(requests, e) /\ s.states = Serving!SetBy(requests, e)
    /\ Promise(s.reminders, requests, e, "memory_remind", more, times)
    /\ Promise(s.queue, requests, e, "memory_graduate", more, times)

LEMMA PromiseSame ==
    ASSUME NEW list, NEW requests, NEW m, NEW n, NEW name, NEW more, NEW times,
           \A c : Serving!By(requests, n, {name}, c) = Serving!By(requests, m, {name}, c),
           Promise(list, requests, m, name, more, times)
    PROVE  Promise(list, requests, n, name, more, times)
BY Zenon DEF Promise

CalledTo(e) ==
    /\ handling.done => handling.id = e
    /\ \A n \in Uncalled : e <= n
    /\ \A n \in DOMAIN sent : e < n /\ sent[n].method = "tools/call" => n \in Uncalled
    /\ \A m \in DOMAIN stdout : stdout[m].of <= e
    /\ StoreIs(store, sent, e, IF e \in Uncalled THEN 1 ELSE 0, kills)

ServerInv ==
    /\ ServerTypeOK /\ OrderInv /\ AnswersInv
    /\ \E e \in 0 .. Len(sent) : CalledTo(e)

LEMMA NoRequestIs == Serving!NoRequest.done = FALSE /\ Serving!NoRequest.id = 0
BY DEF Serving!NoRequest

\* Later requests change nothing of what came before.
LEMMA LaterRequest ==
    ASSUME NEW R, NEW requests \in Seq(R), NEW r, NEW n \in 0 .. Len(requests)
    PROVE  /\ Serving!WrittenBy(Append(requests, r), n) = Serving!WrittenBy(requests, n)
           /\ Serving!SetBy(Append(requests, r), n) = Serving!SetBy(requests, n)
<1>1. \A tools, c : Serving!By(Append(requests, r), n, tools, c) = Serving!By(requests, n, tools, c)
  BY ByAppend
<1>2. \A k \in 1 .. n : Append(requests, r)[k] = requests[k]
  OBVIOUS
<1>3. \A tools, c : Serving!By(requests, n, tools, c) \subseteq 1 .. n
  BY Zenon DEF Serving!By
<1> DEFINE longer == Append(requests, r)
<1> HIDE DEF longer
<1>4. /\ \A tools, c : Serving!By(longer, n, tools, c) = Serving!By(requests, n, tools, c)
      /\ \A tools, c : \A k \in Serving!By(requests, n, tools, c) : longer[k] = requests[k]
  BY <1>1, <1>2, <1>3, Zenon DEF longer
<1>5. Serving!SetBy(longer, n) = Serving!SetBy(requests, n)
  BY <1>4, Zenon DEF Serving!SetBy
<1>6. ASSUME NEW c
      PROVE  (LET about == Serving!By(longer, n, {"memory_write", "memory_delete"}, c)
              IN  \E k \in about : longer[k].tool = "memory_write" /\ \A j \in about : j <= k)
        <=>  (LET about == Serving!By(requests, n, {"memory_write", "memory_delete"}, c)
              IN  \E k \in about : requests[k].tool = "memory_write" /\ \A j \in about : j <= k)
  <2> DEFINE about == Serving!By(requests, n, {"memory_write", "memory_delete"}, c)
  <2>1. /\ Serving!By(longer, n, {"memory_write", "memory_delete"}, c) = about
        /\ \A k \in about : longer[k] = requests[k]
    BY <1>4
  <2> HIDE DEF about
  <2>2. (\E k \in about : longer[k].tool = "memory_write" /\ \A j \in about : j <= k)
          <=> (\E k \in about : requests[k].tool = "memory_write" /\ \A j \in about : j <= k)
    BY <2>1
  <2> QED
    BY <2>1, <2>2, Zenon DEF about
<1>7. Serving!WrittenBy(longer, n) = Serving!WrittenBy(requests, n)
  BY <1>6, Zenon DEF Serving!WrittenBy
<1> QED
  BY <1>5, <1>7 DEF longer

LEMMA LaterAnswer ==
    ASSUME NEW R, NEW requests \in Seq(R), NEW r, NEW a, a.of \in DOMAIN requests
    PROVE  Serving!AnswerIsRight(Append(requests, r), a) <=> Serving!AnswerIsRight(requests, a)
<1> DEFINE longer == Append(requests, r)
<1>1. a.of - 1 \in 0 .. Len(requests) /\ longer[a.of] = requests[a.of]
  OBVIOUS
<1>2. /\ Serving!WrittenBy(longer, a.of - 1) = Serving!WrittenBy(requests, a.of - 1)
      /\ Serving!SetBy(longer, a.of - 1) = Serving!SetBy(requests, a.of - 1)
  BY <1>1, LaterRequest
<1> HIDE DEF longer
<1>3. Serving!AnswerIsRight(longer, a) <=> Serving!AnswerIsRight(requests, a)
  BY <1>1, <1>2, Zenon DEF Serving!AnswerIsRight
<1> QED
  BY <1>3 DEF longer

LEMMA LaterStore ==
    ASSUME NEW R, NEW requests \in Seq(R), NEW r, NEW e \in 0 .. Len(requests), NEW s, NEW more, NEW times
    PROVE  StoreIs(s, Append(requests, r), e, more, times) <=> StoreIs(s, requests, e, more, times)
<1> DEFINE longer == Append(requests, r)
<1>1. /\ Serving!WrittenBy(longer, e) = Serving!WrittenBy(requests, e)
      /\ Serving!SetBy(longer, e) = Serving!SetBy(requests, e)
  BY LaterRequest
<1>2. \A tools, c : Serving!By(longer, e, tools, c) = Serving!By(requests, e, tools, c)
  BY ByAppend
<1> HIDE DEF longer
<1>3. \A list, tool : Promise(list, longer, e, tool, more, times) <=> Promise(list, requests, e, tool, more, times)
  BY <1>2, Zenon DEF Promise
<1>4. StoreIs(s, longer, e, more, times) <=> StoreIs(s, requests, e, more, times)
  BY <1>1, <1>3, Zenon DEF StoreIs
<1> QED
  BY <1>4 DEF longer

LEMMA RequestsAre ==
    ASSUME NEW n \in Nat, n # 0, NEW r \in Serving!Requests(n)
    PROVE  RightRequest(r, n)
<1> DEFINE Args == Content \cup {NoContent}
<1>1. CASE r \in [method : {"tools/call"}, id : {n}, tool : Tool \ Serving!Unargued, content : Args]
  BY <1>1, Zenon DEF RightRequest, RequestType, MethodNames
<1>2. CASE r \in [method : {"tools/call"}, id : {n}, tool : Tool \cap Serving!Unargued,
                  content : {NoContent}]
  BY <1>2, Zenon DEF RightRequest, RequestType, MethodNames
<1>3. CASE r \in [method : {"initialize", "prompts/list"}, id : {n}, tool : {""}, content : {NoContent}]
  BY <1>3, Zenon DEF RightRequest, RequestType, MethodNames
<1>4. CASE r \in [method : {"notifications/cancelled", "garbage"}, id : {Serving!NoId}, tool : {""},
                  content : {NoContent}]
  <2>1. r.id \in {0} /\ r.tool \in {""} /\ r.content \in {NoContent}
    BY <1>4, Zenon DEF Serving!NoId
  <2>2. r.method \in {"notifications/cancelled", "garbage"}
    BY <1>4, Zenon
  <2>3. r = [method |-> r.method, id |-> r.id, tool |-> r.tool, content |-> r.content]
    BY <1>4, Zenon
  <2>4. r.method \in MethodNames /\ r.method # "tools/call"
    BY <2>2 DEF MethodNames
  <2>5. r.id \in Nat /\ r.id \in {0, n}
    <3>1. r.id = 0
      BY <2>1, Zenon
    <3> QED
      BY <3>1
  <2>6. r.tool \in Tool \cup {""} /\ r.content \in Content \cup {NoContent}
    BY <2>1, Zenon
  <2>7. r \in RequestType
    BY <2>3, <2>4, <2>5, <2>6, Zenon DEF RequestType
  <2>8. r.id = 0
    BY <2>1, Zenon
  <2> QED
    BY <2>1, <2>2, <2>4, <2>5, <2>7, <2>8, Zenon DEF RightRequest
<1> QED
  BY <1>1, <1>2, <1>3, <1>4, Zenon DEF Serving!Requests

LEMMA SendKeeps ==
    ASSUME ServerInv, Serving!Send
    PROVE  ServerInv'
<1> DEFINE k == Len(sent) + 1
<1>0. ServerTypeOK /\ OrderInv /\ AnswersInv
  BY DEF ServerInv
<1>1. PICK r \in Serving!Requests(k) : sent' = Append(sent, r)
  BY Zenon DEF Serving!Send
<1>2. stdin' = Append(stdin, k) /\ UNCHANGED <<handling, stdout, store, kills>>
  BY Zenon DEF Serving!Send
<1>3. /\ sent \in Seq(RequestType) /\ Len(sent) \in Nat /\ DOMAIN sent = 1 .. Len(sent)
      /\ stdin \in Seq(DOMAIN sent) /\ stdin \in Seq(Nat)
  BY <1>0 DEF ServerTypeOK
<1>4. k \in Nat /\ k # 0 /\ RightRequest(r, k) /\ r \in RequestType
  <2>1. k \in Nat /\ k # 0
    BY <1>3
  <2> HIDE DEF k
  <2>2. RightRequest(r, k)
    BY <2>1, RequestsAre
  <2> QED
    BY <2>1, <2>2, Zenon DEF RightRequest
<1>5. /\ sent' \in Seq(RequestType) /\ DOMAIN sent' = (DOMAIN sent) \cup {k} /\ sent'[k] = r
      /\ \A n \in DOMAIN sent : sent'[n] = sent[n] /\ n < k
      /\ Len(sent') = k /\ DOMAIN sent' = 1 .. k /\ k \notin DOMAIN sent
  BY <1>1, <1>3, <1>4
<1>6. /\ DOMAIN stdin' = (DOMAIN stdin) \cup {Len(stdin) + 1} /\ stdin'[Len(stdin) + 1] = k
      /\ \A i \in DOMAIN stdin : stdin'[i] = stdin[i] /\ stdin[i] \in DOMAIN sent /\ i < Len(stdin) + 1
      /\ stdin' \in Seq(DOMAIN sent') /\ DOMAIN stdin \subseteq Nat /\ Len(stdin) \in Nat
  <2>1. DOMAIN stdin = 1 .. Len(stdin) /\ Len(stdin) \in Nat
    BY <1>3
  <2>2. \A i \in DOMAIN stdin : stdin[i] \in DOMAIN sent
    BY <1>3
  <2>3. k \in DOMAIN sent' /\ DOMAIN sent \subseteq DOMAIN sent' /\ stdin \in Seq(DOMAIN sent')
    BY <1>3, <1>5
  <2> QED
    BY <1>2, <2>1, <2>2, <2>3
<1> HIDE DEF k
<1>7. Waiting' = Waiting \cup {k}
  BY <1>6 DEF Waiting
<1>8. Resting' = Resting /\ Unreplied' = Unreplied \cup {k} /\ Uncalled' = Uncalled \cup {k}
  BY <1>2, <1>7 DEF Resting, Unreplied, Uncalled
<1>9. ServerTypeOK'
  BY <1>0, <1>2, <1>4, <1>5, <1>6, <1>8 DEF ServerTypeOK
<1>10. \A m \in DOMAIN stdout : stdout[m].of \in DOMAIN sent
  BY <1>0 DEF AnswersInv
<1>11. OrderInv'
  <2>1. \A i, j \in DOMAIN stdin' : i < j => stdin'[i] < stdin'[j]
    BY <1>0, <1>5, <1>6 DEF OrderInv
  <2>2. ~ Resting => \A n \in Waiting' : handling'.id < n
    BY <1>0, <1>2, <1>5, <1>7 DEF OrderInv, ServerTypeOK
  <2>3. \A m \in DOMAIN stdout' : \A n \in Unreplied' : stdout'[m].of < n
    BY <1>0, <1>2, <1>5, <1>8, <1>10 DEF OrderInv
  <2>4. \A m, n \in DOMAIN stdout' : m < n => stdout'[m].of < stdout'[n].of
    BY <1>0, <1>2 DEF OrderInv
  <2> QED
    BY <1>8, <2>1, <2>2, <2>3, <2>4 DEF OrderInv
<1>12. AnswersInv'
  <2>1. \A n \in DOMAIN sent' : sent'[n].id # 0 =>
          n \in Unreplied' \/ \E m \in DOMAIN stdout' : stdout'[m].id = n
    BY <1>0, <1>2, <1>5, <1>8 DEF AnswersInv
  <2>2. \A a : a.of \in DOMAIN sent =>
          (Serving!AnswerIsRight(sent', a) <=> Serving!AnswerIsRight(sent, a))
    BY <1>1, <1>3, LaterAnswer
  <2>3. \A m \in DOMAIN stdout' :
          stdout'[m].of \in DOMAIN sent' /\ Serving!AnswerIsRight(sent', stdout'[m])
    BY <1>0, <1>2, <1>5, <2>2 DEF AnswersInv
  <2>4. handling.done => handling.id \in DOMAIN sent
    BY <1>0, NoRequestIs DEF ServerTypeOK, Resting
  <2>5. handling'.done =>
         \/ handling'.reply = <<>> /\ sent'[handling'.id].id = 0
         \/ \E a \in ReplyType : /\ handling'.reply = <<a>> /\ a.of = handling'.id
                               /\ Serving!AnswerIsRight(sent', a)
    BY <1>0, <1>2, <1>5, <2>2, <2>4, Zenon DEF AnswersInv
  <2> QED
    BY <2>1, <2>3, <2>5, Zenon DEF AnswersInv
<1>13. \E e \in 0 .. Len(sent') : CalledTo(e)'
  <2>1. PICK e \in 0 .. Len(sent) : CalledTo(e)
    BY DEF ServerInv
  <2>2. e \in 0 .. Len(sent') /\ e < k /\ e \in Nat
    BY <1>3, <1>5 DEF k
  <2>3. \A n \in Uncalled' : e <= n
    BY <1>8, <2>1, <2>2, <1>4 DEF CalledTo
  <2>4. \A n \in DOMAIN sent' : e < n /\ sent'[n].method = "tools/call" => n \in Uncalled'
    BY <1>5, <1>8, <2>1 DEF CalledTo
  <2>5. e \in Uncalled' <=> e \in Uncalled
    BY <1>8, <2>2, <1>4
  <2>6. StoreIs(store', sent', e, IF e \in Uncalled' THEN 1 ELSE 0, kills')
    BY <1>1, <1>2, <1>3, <2>1, <2>5, LaterStore DEF CalledTo
  <2>7. /\ handling'.done => handling'.id = e
        /\ \A m \in DOMAIN stdout' : stdout'[m].of <= e
    BY <1>2, <2>1 DEF CalledTo
  <2>8. CalledTo(e)'
    BY <2>3, <2>4, <2>6, <2>7 DEF CalledTo
  <2> QED
    BY <2>2, <2>8
<1> QED
  BY <1>9, <1>11, <1>12, <1>13 DEF ServerInv

LEMMA ReadLineKeeps ==
    ASSUME ServerInv, Serving!ReadLine
    PROVE  ServerInv'
<1>0. ServerTypeOK /\ OrderInv /\ AnswersInv
  BY DEF ServerInv
<1> DEFINE h == Head(stdin)
<1>1. /\ Resting /\ stdin # <<>> /\ stdin' = Tail(stdin)
      /\ handling' = [id |-> h, done |-> FALSE, reply |-> <<>>]
      /\ UNCHANGED <<sent, stdout, store, kills>>
  BY DEF Serving!ReadLine, Resting
<1>2. stdin \in Seq(DOMAIN sent) /\ DOMAIN sent \subseteq Nat \ {0}
  BY <1>0 DEF ServerTypeOK
<1>3. /\ Len(stdin) \in Nat \ {0} /\ DOMAIN stdin = 1 .. Len(stdin) /\ h = stdin[1] /\ h \in DOMAIN sent
      /\ stdin' \in Seq(DOMAIN sent) /\ DOMAIN stdin' = 1 .. (Len(stdin) - 1)
      /\ \A i \in DOMAIN stdin' : stdin'[i] = stdin[i + 1] /\ i + 1 \in DOMAIN stdin
      /\ \A i \in DOMAIN stdin : i = 1 \/ (i - 1 \in DOMAIN stdin' /\ stdin'[i - 1] = stdin[i])
  BY <1>1, <1>2
<1> HIDE DEF h
<1>4. handling'.done = FALSE /\ handling'.id = h /\ ~ Resting' /\ handling' \in HandlingType
  BY <1>1, <1>2, <1>3, NoRequestIs DEF Resting, HandlingType
<1>5. Waiting = Waiting' \cup {h}
  <2>1. \A n \in Waiting : n \in Waiting' \/ n = h
    <3> TAKE n \in Waiting
    <3>1. PICK i \in DOMAIN stdin : n = stdin[i]
      BY DEF Waiting
    <3>2. CASE i = 1
      BY <1>3, <3>1, <3>2
    <3>3. CASE i - 1 \in DOMAIN stdin' /\ stdin'[i - 1] = stdin[i]
      BY <3>1, <3>3 DEF Waiting
    <3> QED
      BY <1>3, <3>2, <3>3
  <2>2. 1 \in DOMAIN stdin
    BY <1>3
  <2>3. \A n \in Waiting' : n \in Waiting
    BY <1>3, Zenon DEF Waiting
  <2>4. h \in Waiting
    BY <1>3, <2>2, Zenon DEF Waiting
  <2> QED
    BY <2>1, <2>3, <2>4
<1>6. Unreplied' = Unreplied /\ Uncalled' = Uncalled
  BY <1>1, <1>4, <1>5 DEF Unreplied, Uncalled
<1>7. ServerTypeOK'
  BY <1>0, <1>1, <1>3, <1>4 DEF ServerTypeOK
<1>8. OrderInv'
  <2>1. \A i, j \in DOMAIN stdin' : i < j => stdin'[i] < stdin'[j]
    BY <1>0, <1>3 DEF OrderInv
  <2>2. \A i \in DOMAIN stdin' : h < stdin'[i]
    BY <1>0, <1>3 DEF OrderInv
  <2>3. \A n \in Waiting' : handling'.id < n
    BY <1>4, <2>2, Zenon DEF Waiting
  <2> QED
    BY <1>0, <1>1, <1>6, <2>1, <2>3 DEF OrderInv
<1>9. AnswersInv'
  BY <1>0, <1>1, <1>4, <1>6 DEF AnswersInv
<1>10. \A e : CalledTo(e) => CalledTo(e)'
  BY <1>1, <1>4, <1>6 DEF CalledTo
<1> QED
  BY <1>1, <1>7, <1>8, <1>9, <1>10 DEF ServerInv

LEMMA CallTells ==
    ASSUME NEW s \in StoreType, NEW tool, NEW c \in Content \cup {NoContent}
    PROVE  /\ Serving!Called(s, tool, c).kind \in {"ok", "error"}
           /\ Serving!Called(s, tool, c).found \in SUBSET Content
<1> DEFINE Fine(call) == call.kind \in {"ok", "error"} /\ call.found \in SUBSET Content
<1>1. /\ s.memories \subseteq Content /\ s.states \subseteq Content /\ s.queue \in Seq(Content)
      /\ {s.queue[i] : i \in DOMAIN s.queue} \subseteq Content
  BY DEF StoreType
<1>2. \A st : Fine(Serving!Fails(st)) /\ \A found \in SUBSET Content : Fine(Serving!Tells(st, found))
  BY DEF Serving!Fails, Serving!Tells
<1>3. /\ {c} \cap s.memories \in SUBSET Content /\ (c \in s.memories => {c} \in SUBSET Content)
      /\ (c \in s.states => {c} \in SUBSET Content) /\ {} \in SUBSET Content
      /\ s.memories \in SUBSET Content /\ s.states \in SUBSET Content
      /\ {s.queue[i] : i \in DOMAIN s.queue} \in SUBSET Content
  BY <1>1
<1> HIDE DEF Fine
<1>4. /\ Fine(Serving!toolSearch(s, c)) /\ Fine(Serving!toolList(s)) /\ Fine(Serving!toolTimeline(s))
      /\ Fine(Serving!toolRead(s, c)) /\ Fine(Serving!toolWrite(s, c)) /\ Fine(Serving!toolDelete(s, c))
  BY <1>2, <1>3, Zenon DEF Serving!toolSearch, Serving!toolList, Serving!toolTimeline,
     Serving!toolRead, Serving!toolWrite, Serving!toolDelete
<1>5. /\ Fine(Serving!toolRemind(s, c)) /\ Fine(Serving!toolStateGet(s, c))
      /\ Fine(Serving!toolStateSet(s, c)) /\ Fine(Serving!toolGraduate(s, c))
      /\ Fine(Serving!toolSessions(s)) /\ Fine(Serving!Fails(s))
  BY <1>2, <1>3, Zenon DEF Serving!toolRemind, Serving!toolStateGet, Serving!toolStateSet,
     Serving!toolGraduate, Serving!toolSessions
<1>6. Fine(Serving!Called(s, tool, c))
  BY <1>4, <1>5, Zenon DEF Serving!Called
<1> QED
  BY <1>6 DEF Fine

\* What a call makes of the store, or a request that is no call.
StoreAfter(s, tool, c) ==
    [memories |-> Remembers(s.memories, tool, c), states |-> StatesAfter(s.states, tool, c),
     reminders |-> ListAfter(s.reminders, "memory_remind", tool, c),
     queue |-> ListAfter(s.queue, "memory_graduate", tool, c)]

LEMMA AfterNothing ==
    ASSUME NEW s \in StoreType, NEW c
    PROVE  StoreAfter(s, "", c) = s
<1>1. s = [memories |-> s.memories, states |-> s.states, reminders |-> s.reminders, queue |-> s.queue]
  BY DEF StoreType
<1>2. /\ Remembers(s.memories, "", c) = s.memories /\ StatesAfter(s.states, "", c) = s.states
      /\ ListAfter(s.reminders, "memory_remind", "", c) = s.reminders
      /\ ListAfter(s.queue, "memory_graduate", "", c) = s.queue
  BY DEF Remembers, StatesAfter, ListAfter
<1> QED
  BY <1>1, <1>2, Zenon DEF StoreAfter

LEMMA AfterIs ==
    ASSUME NEW s, NEW tool, NEW c
    PROVE  /\ StoreAfter(s, tool, c).memories = Remembers(s.memories, tool, c)
           /\ StoreAfter(s, tool, c).states = StatesAfter(s.states, tool, c)
           /\ StoreAfter(s, tool, c).reminders = ListAfter(s.reminders, "memory_remind", tool, c)
           /\ StoreAfter(s, tool, c).queue = ListAfter(s.queue, "memory_graduate", tool, c)
BY DEF StoreAfter

LEMMA PromiseOnce ==
    ASSUME NEW list \in Seq(Content), NEW requests, NEW n \in Nat, n # 0,
           requests[n].content \in Content \cup {NoContent}, NEW name, NEW times \in Nat,
           Promise(list, requests, n - 1, name, 0, times)
    PROVE  Promise(ListAfter(list, name, requests[n].tool, requests[n].content), requests, n, name, 0, times)
<1> DEFINE longer == ListAfter(list, name, requests[n].tool, requests[n].content)
<1> SUFFICES ASSUME NEW c \in Content
             PROVE  /\ Cardinality(Serving!By(requests, n, {name}, c)) <= Serving!Made(longer, c)
                    /\ Serving!Made(longer, c) + 0
                         <= Cardinality(Serving!By(requests, n, {name}, c)) + times
  BY Zenon DEF Promise
<1> DEFINE asked == Cardinality(Serving!By(requests, n - 1, {name}, c))
           made == Serving!Made(list, c)
<1>1. asked <= made /\ made + 0 <= asked + times
  BY Zenon DEF Promise
<1>2. asked \in Nat /\ made \in Nat
  <2>1. n - 1 \in Nat
    OBVIOUS
  <2> QED
    BY <2>1, ByType, MadeIs
<1>3. IsCall(requests[n], {name}, c) <=> requests[n].tool = name /\ requests[n].content = c
  BY DEF IsCall
<1>4. Cardinality(Serving!By(requests, n, {name}, c)) = asked + IF IsCall(requests[n], {name}, c) THEN 1 ELSE 0
  BY ByCount
<1>5. Serving!Made(longer, c) = made + IF requests[n].tool = name /\ requests[n].content = c THEN 1 ELSE 0
  BY ListedMade
<1> HIDE DEF longer, asked, made
<1> QED
  BY <1>1, <1>2, <1>3, <1>4, <1>5

LEMMA PromiseAgain ==
    ASSUME NEW list \in Seq(Content), NEW requests, NEW n \in Nat, NEW name, NEW times \in Nat,
           NEW tool, NEW a \in Content \cup {NoContent},
           Promise(list, requests, n, name, 1, times)
    PROVE  Promise(ListAfter(list, name, tool, a), requests, n, name, 0, times)
<1> DEFINE longer == ListAfter(list, name, tool, a)
<1> SUFFICES ASSUME NEW c \in Content
             PROVE  /\ Cardinality(Serving!By(requests, n, {name}, c)) <= Serving!Made(longer, c)
                    /\ Serving!Made(longer, c) + 0
                         <= Cardinality(Serving!By(requests, n, {name}, c)) + times
  BY Zenon DEF Promise
<1> DEFINE asked == Cardinality(Serving!By(requests, n, {name}, c))
           made == Serving!Made(list, c)
<1>1. asked <= made /\ made + 1 <= asked + times
  BY Zenon DEF Promise
<1>2. asked \in Nat /\ made \in Nat
  BY ByType, MadeIs
<1>3. Serving!Made(longer, c) = made + IF tool = name /\ a = c THEN 1 ELSE 0
  BY ListedMade
<1> HIDE DEF longer, made
<1>4. CASE tool = name /\ a = c
  BY <1>1, <1>2, <1>3, <1>4
<1>5. CASE ~ (tool = name /\ a = c)
  BY <1>1, <1>2, <1>3, <1>5
<1> QED
  BY <1>4, <1>5

LEMMA StoreOnce ==
    ASSUME NEW s \in StoreType, NEW requests, NEW n \in Nat, n # 0,
           requests[n].content \in Content \cup {NoContent}, NEW times \in Nat,
           StoreIs(s, requests, n - 1, 0, times)
    PROVE  StoreIs(StoreAfter(s, requests[n].tool, requests[n].content), requests, n, 0, times)
<1>1. s.reminders \in Seq(Content) /\ s.queue \in Seq(Content)
  BY DEF StoreType
<1>2. /\ s.memories = Serving!WrittenBy(requests, n - 1) /\ s.states = Serving!SetBy(requests, n - 1)
      /\ Promise(s.reminders, requests, n - 1, "memory_remind", 0, times)
      /\ Promise(s.queue, requests, n - 1, "memory_graduate", 0, times)
  BY Zenon DEF StoreIs
<1> DEFINE t == requests[n].tool
           a == requests[n].content
<1>3. /\ Promise(ListAfter(s.reminders, "memory_remind", t, a), requests, n, "memory_remind", 0, times)
      /\ Promise(ListAfter(s.queue, "memory_graduate", t, a), requests, n, "memory_graduate", 0, times)
  BY <1>1, <1>2, PromiseOnce
<1>4. /\ Serving!WrittenBy(requests, n) = Remembers(s.memories, t, a)
      /\ Serving!SetBy(requests, n) = StatesAfter(s.states, t, a)
  BY <1>2, WrittenStep, SetStep
<1> DEFINE z == StoreAfter(s, t, a)
<1>6. /\ z.memories = Remembers(s.memories, t, a) /\ z.states = StatesAfter(s.states, t, a)
      /\ z.reminders = ListAfter(s.reminders, "memory_remind", t, a)
      /\ z.queue = ListAfter(s.queue, "memory_graduate", t, a)
  BY AfterIs
<1> HIDE DEF z
<1>7. StoreIs(z, requests, n, 0, times)
  BY <1>3, <1>4, <1>6, Zenon DEF StoreIs
<1> QED
  BY <1>7 DEF z

LEMMA StoreAgain ==
    ASSUME NEW s \in StoreType, NEW requests, NEW n \in Nat, n # 0,
           requests[n].content \in Content \cup {NoContent}, NEW times \in Nat,
           StoreIs(s, requests, n, 1, times)
    PROVE  StoreIs(StoreAfter(s, requests[n].tool, requests[n].content), requests, n, 0, times)
<1>1. s.reminders \in Seq(Content) /\ s.queue \in Seq(Content)
  BY DEF StoreType
<1>2. /\ s.memories = Serving!WrittenBy(requests, n) /\ s.states = Serving!SetBy(requests, n)
      /\ Promise(s.reminders, requests, n, "memory_remind", 1, times)
      /\ Promise(s.queue, requests, n, "memory_graduate", 1, times)
  BY Zenon DEF StoreIs
<1> DEFINE t == requests[n].tool
           a == requests[n].content
<1>3. /\ Promise(ListAfter(s.reminders, "memory_remind", t, a), requests, n, "memory_remind", 0, times)
      /\ Promise(ListAfter(s.queue, "memory_graduate", t, a), requests, n, "memory_graduate", 0, times)
  BY <1>1, <1>2, PromiseAgain
<1>4. \A m : Remembers(Remembers(m, t, a), t, a) = Remembers(m, t, a)
             /\ StatesAfter(StatesAfter(m, t, a), t, a) = StatesAfter(m, t, a)
  <2>1. \A m : Remembers(Remembers(m, t, a), t, a) = Remembers(m, t, a)
    BY DEF Remembers
  <2>2. \A m : StatesAfter(StatesAfter(m, t, a), t, a) = StatesAfter(m, t, a)
    BY DEF StatesAfter
  <2> QED
    BY <2>1, <2>2
<1>5. /\ Serving!WrittenBy(requests, n) = Remembers(s.memories, t, a)
      /\ Serving!SetBy(requests, n) = StatesAfter(s.states, t, a)
  BY <1>2, <1>4, WrittenStep, SetStep
<1> DEFINE z == StoreAfter(s, t, a)
<1>6. /\ z.memories = Remembers(s.memories, t, a) /\ z.states = StatesAfter(s.states, t, a)
      /\ z.reminders = ListAfter(s.reminders, "memory_remind", t, a)
      /\ z.queue = ListAfter(s.queue, "memory_graduate", t, a)
  BY AfterIs
<1> HIDE DEF z
<1>7. StoreIs(z, requests, n, 0, times)
  BY <1>3, <1>5, <1>6, Zenon DEF StoreIs
<1> QED
  BY <1>7 DEF z

\* A tool tells what the requests before it made, though it may be called again.
LEMMA TellsRight ==
    ASSUME NEW s \in StoreType, NEW requests, NEW n \in Nat, n # 0,
           requests[n].content \in Content \cup {NoContent},
           requests[n].id # 0, requests[n].method # "garbage", NEW times, NEW kind, NEW more,
           StoreIs(s, requests, n - 1, 0, times) \/ StoreIs(s, requests, n, more, times),
           NEW found,
           requests[n].tool \in ReadingTools => found = ToldBy(s, requests[n].tool, requests[n].content)
    PROVE  Serving!AnswerIsRight(requests, Serving!Reply(n, requests[n].id, kind, found))
<1> DEFINE t == requests[n].tool
           a == requests[n].content
           answer == Serving!Reply(n, requests[n].id, kind, found)
           W == Serving!WrittenBy(requests, n - 1)
           S == Serving!SetBy(requests, n - 1)
<1>1. t \in ReadingTools => s.memories = W /\ s.states = S
  <2>1. CASE StoreIs(s, requests, n - 1, 0, times)
    BY <2>1 DEF StoreIs
  <2>2. CASE StoreIs(s, requests, n, more, times)
    <3>1. t \in ReadingTools => \A m : Remembers(m, t, a) = m /\ StatesAfter(m, t, a) = m
      BY DEF ReadingTools, Remembers, StatesAfter
    <3>2. s.memories = Remembers(W, t, a) /\ s.states = StatesAfter(S, t, a)
      BY <2>2, WrittenStep, SetStep DEF StoreIs
    <3> QED
      BY <3>1, <3>2, Zenon
  <2> QED
    BY <2>1, <2>2
<1>2. answer.of = n /\ answer.id = requests[n].id /\ answer.found = found
  BY DEF Serving!Reply
<1> HIDE DEF answer, W, S
<1>3. /\ t \in {"memory_list", "memory_timeline"} => found = W
      /\ t \in {"memory_read", "memory_search"} => found = W \cap {a}
      /\ t = "memory_state_get" => found = IF a = NoContent THEN S ELSE S \cap {a}
  <2>1. CASE t \in {"memory_list", "memory_timeline"}
    BY <1>1, <2>1 DEF ReadingTools, ToldBy
  <2>2. CASE t \in {"memory_read", "memory_search"}
    BY <1>1, <2>2 DEF ReadingTools, ToldBy
  <2>3. CASE t = "memory_state_get"
    BY <1>1, <2>3 DEF ReadingTools, ToldBy
  <2> QED
    BY <2>1, <2>2, <2>3
<1>4. Serving!AnswerIsRight(requests, answer)
  BY <1>2, <1>3, Zenon DEF Serving!AnswerIsRight, Serving!NoId, W, S
<1> QED
  BY <1>4 DEF answer

LEMMA SaysNothing ==
    ASSUME NEW requests, NEW n, NEW kind, requests[n].tool = "",
           requests[n].id = 0 => requests[n].method = "garbage"
    PROVE  Serving!AnswerIsRight(requests, Serving!Reply(n, requests[n].id, kind, {}))
<1> DEFINE answer == Serving!Reply(n, requests[n].id, kind, {})
<1>1. answer.of = n /\ answer.id = requests[n].id
  BY Zenon DEF Serving!Reply
<1>2. /\ "" \notin {"memory_list", "memory_timeline"} /\ "" \notin {"memory_read", "memory_search"}
      /\ "" # "memory_state_get"
  BY Zenon
<1> HIDE DEF answer
<1>3. Serving!AnswerIsRight(requests, answer)
  BY <1>1, <1>2, Zenon DEF Serving!AnswerIsRight, Serving!NoId
<1> QED
  BY <1>3, Zenon DEF answer

\* The reply to a request, and what becomes of the store.
LEMMA RepliesAreRight ==
    ASSUME store \in StoreType, sent \in Seq(RequestType), NEW n \in DOMAIN sent, RightRequest(sent[n], n),
           NEW times, NEW more,
           StoreIs(store, sent, n - 1, 0, times) \/ StoreIs(store, sent, n, more, times)
    PROVE  \/ Serving!Replies(n, sent[n]) = <<>> /\ sent[n].id = 0
           \/ \E a \in ReplyType : /\ Serving!Replies(n, sent[n]) = <<a>> /\ a.of = n
                                 /\ Serving!AnswerIsRight(sent, a)
<1> DEFINE r == sent[n]
           a(kind, found) == Serving!Reply(n, r.id, kind, found)
<1>1. n \in Nat /\ n # 0 /\ r.id \in Nat /\ r.content \in Content \cup {NoContent} /\ r.method \in MethodNames
  <2>1. r \in RequestType
    BY Zenon DEF RightRequest
  <2>2. n \in Nat /\ n # 0
    OBVIOUS
  <2> HIDE DEF r
  <2>3. r.id \in Nat /\ r.content \in Content \cup {NoContent} /\ r.method \in MethodNames
    BY <2>1, Zenon DEF RequestType
  <2> QED
    BY <2>2, <2>3
<1>2. \A kind \in {"ok", "error"}, found \in SUBSET Content :
        a(kind, found) \in ReplyType /\ a(kind, found).of = n
  BY <1>1 DEF ReplyType, Serving!Reply
<1>3. {} \in SUBSET Content
  OBVIOUS
<1>4. CASE r.method = "tools/call"
  <2> DEFINE call == Serving!Called(store, r.tool, r.content)
  <2>1. Serving!Replies(n, r) = <<a(call.kind, call.found)>>
    BY <1>4, Zenon DEF Serving!Replies
  <2>2. call.kind \in {"ok", "error"} /\ call.found \in SUBSET Content
    BY <1>1, CallTells
  <2>3. r.tool \in ReadingTools => call.found = ToldBy(store, r.tool, r.content)
    BY <1>1, CallIs, Zenon DEF CallIsRight
  <2>4. r.method \notin {"notifications/cancelled", "garbage"}
    BY <1>4
  <2>5. r.id # 0 /\ r.method # "garbage"
    BY <2>4, Zenon DEF RightRequest
  <2> HIDE DEF call
  <2>6. Serving!AnswerIsRight(sent, a(call.kind, call.found))
    BY <1>1, <2>3, <2>5, TellsRight
  <2> QED
    BY <1>2, <2>1, <2>2, <2>6, Zenon
<1>5. CASE r.method = "garbage"
  <2>1. r.method # "tools/call" /\ r.method \in {"notifications/cancelled", "garbage"}
    BY <1>5
  <2>2. r.tool = "" /\ r.id = 0
    BY <2>1, Zenon DEF RightRequest
  <2>3. Serving!Replies(n, r) = <<a("error", {})>>
    BY <1>5, <2>2, Zenon DEF Serving!Replies, Serving!NoId
  <2>4. Serving!AnswerIsRight(sent, a("error", {}))
    BY <1>5, <2>2, SaysNothing, Zenon
  <2> QED
    BY <1>2, <1>3, <2>3, <2>4, Zenon
<1>6. CASE r.method = "initialize"
  <2>1. r.method # "tools/call" /\ r.method \notin {"notifications/cancelled", "garbage"}
        /\ r.method # "garbage"
    BY <1>6
  <2>2. r.tool = "" /\ r.id # 0
    BY <2>1, Zenon DEF RightRequest
  <2>3. Serving!Replies(n, r) = <<a("ok", {})>>
    BY <1>6, <2>1, Zenon DEF Serving!Replies
  <2>4. Serving!AnswerIsRight(sent, a("ok", {}))
    BY <2>2, SaysNothing, Zenon
  <2> QED
    BY <1>2, <1>3, <2>3, <2>4, Zenon
<1>7. CASE r.method \in {"prompts/list", "notifications/cancelled"}
  <2>1. r.method # "tools/call" /\ r.method # "garbage" /\ r.method # "initialize"
    BY <1>7
  <2>2. r.tool = ""
    BY <2>1, Zenon DEF RightRequest
  <2>3. Serving!Replies(n, r) = IF r.id = 0 THEN <<>> ELSE <<a("error", {})>>
    BY <2>1, Zenon DEF Serving!Replies, Serving!NoId
  <2>4. r.id # 0 => Serving!AnswerIsRight(sent, a("error", {}))
    BY <2>2, SaysNothing, Zenon
  <2> QED
    BY <1>2, <1>3, <2>3, <2>4, Zenon
<1> QED
  BY <1>1, <1>4, <1>5, <1>6, <1>7 DEF MethodNames

LEMMA HandleKeeps ==
    ASSUME ServerInv, Serving!Handle
    PROVE  ServerInv'
<1> PICK n : n = handling.id
  OBVIOUS
<1> DEFINE r == sent[n]
<1>0. ServerTypeOK /\ OrderInv /\ AnswersInv
  BY DEF ServerInv
<1>1. /\ ~ Resting /\ ~ handling.done
      /\ handling' = [handling EXCEPT !.done = TRUE, !.reply = Serving!Replies(n, r)]
      /\ store' = IF r.method = "tools/call" THEN Serving!Called(store, r.tool, r.content).store
                  ELSE store
      /\ UNCHANGED <<sent, stdin, stdout, kills>>
  BY DEF Serving!Handle, Resting
<1>2. /\ sent \in Seq(RequestType) /\ store \in StoreType /\ handling \in HandlingType /\ n \in DOMAIN sent
      /\ RightRequest(r, n) /\ kills \in Nat /\ stdin \in Seq(DOMAIN sent)
  BY <1>0, <1>1 DEF ServerTypeOK
<1>3. n \in Nat /\ n # 0 /\ n \in 0 .. Len(sent) /\ DOMAIN sent = 1 .. Len(sent) /\ Len(sent) \in Nat
  BY <1>2
<1>4. r.content \in Content \cup {NoContent}
  BY <1>2, Zenon DEF RightRequest, RequestType
<1>5. store' = StoreAfter(store, r.tool, r.content)
  <2>1. CASE r.method = "tools/call"
    BY <1>1, <1>2, <1>4, <2>1, CallIs, Zenon DEF CallIsRight, StoreAfter
  <2>2. CASE r.method # "tools/call"
    <3>1. r.tool = ""
      BY <1>2, <2>2, Zenon DEF RightRequest
    <3> QED
      BY <1>1, <1>2, <2>2, <3>1, AfterNothing, Zenon
  <2> QED
    BY <2>1, <2>2
<1>6. store' \in StoreType
  BY <1>1, <1>2, <1>4, CallKeeps
<1>7. PICK e \in 0 .. Len(sent) : CalledTo(e)
  BY DEF ServerInv
<1>8. /\ Uncalled = Waiting \cup {n} /\ Unreplied = Waiting \cup {n} /\ \A k \in Waiting : n < k
      /\ e <= n /\ Waiting \subseteq Nat
  <2>1. Uncalled = Waiting \cup {n} /\ Unreplied = Waiting \cup {n}
    BY <1>1 DEF Uncalled, Unreplied
  <2>2. \A k \in Waiting : n < k
    BY <1>0, <1>1 DEF OrderInv
  <2>3. e <= n
    BY <1>7, <2>1 DEF CalledTo
  <2>4. Waiting \subseteq DOMAIN sent
    BY <1>2 DEF Waiting
  <2> QED
    BY <1>3, <2>1, <2>2, <2>3, <2>4
<1>9. StoreIs(store, sent, n - 1, 0, kills) \/ StoreIs(store, sent, n, 1, kills)
  <2>1. CASE e = n
    <3>1. e \in Uncalled
      BY <1>8, <2>1
    <3> QED
      BY <1>7, <2>1, <3>1, Zenon DEF CalledTo
  <2>2. CASE e # n
    <3>1. e \in Nat /\ n - 1 \in Nat /\ e <= n - 1 /\ e \notin Uncalled
      BY <1>3, <1>7, <1>8, <2>2
    <3>2. \A k \in DOMAIN sent : e < k /\ k < n => sent[k].tool = ""
      <4> SUFFICES ASSUME NEW k \in DOMAIN sent, e < k, k < n
                   PROVE  sent[k].tool = ""
        BY Zenon
      <4>1. k \notin Uncalled
        BY <1>3, <1>8
      <4>2. sent[k].method # "tools/call"
        BY <1>7, <4>1 DEF CalledTo
      <4> QED
        BY <1>0, <4>2, Zenon DEF ServerTypeOK, RightRequest
    <3>3. NothingCalled(sent, e, n - 1)
      <4>1. \A k \in 1 .. (n - 1) : k \in DOMAIN sent /\ k < n
        BY <1>3
      <4>2. "" \notin {"memory_write", "memory_delete", "memory_state_set", "memory_remind",
                       "memory_graduate"}
        OBVIOUS
      <4> QED
        BY <3>2, <4>1, <4>2, Zenon DEF NothingCalled
    <3>4. /\ Serving!WrittenBy(sent, n - 1) = Serving!WrittenBy(sent, e)
          /\ Serving!SetBy(sent, n - 1) = Serving!SetBy(sent, e)
          /\ \A c : Serving!By(sent, n - 1, {"memory_remind"}, c)
                       = Serving!By(sent, e, {"memory_remind"}, c)
          /\ \A c : Serving!By(sent, n - 1, {"memory_graduate"}, c)
                       = Serving!By(sent, e, {"memory_graduate"}, c)
      BY <3>1, <3>3, SilentGap
    <3>5. StoreIs(store, sent, e, 0, kills)
      BY <1>7, <3>1, Zenon DEF CalledTo
    <3>6. /\ Promise(store.reminders, sent, e, "memory_remind", 0, kills)
          /\ Promise(store.queue, sent, e, "memory_graduate", 0, kills)
      BY <3>5, Zenon DEF StoreIs
    <3>7. /\ Promise(store.reminders, sent, n - 1, "memory_remind", 0, kills)
          /\ Promise(store.queue, sent, n - 1, "memory_graduate", 0, kills)
      BY <3>4, <3>6, PromiseSame
    <3>8. StoreIs(store, sent, n - 1, 0, kills)
      BY <3>4, <3>5, <3>7, Zenon DEF StoreIs
    <3> QED
      BY <3>8
  <2> QED
    BY <2>1, <2>2
<1>10. StoreIs(store', sent, n, 0, kills)
  BY <1>2, <1>3, <1>4, <1>5, <1>9, StoreOnce, StoreAgain
<1>11. /\ handling'.done = TRUE /\ handling'.id = n /\ handling'.reply = Serving!Replies(n, r)
       /\ ~ Resting'
  BY <1>1, <1>2, NoRequestIs DEF HandlingType, Resting
<1>12. /\ Waiting' = Waiting /\ Unreplied' = Unreplied /\ Uncalled' = Waiting
  BY <1>1, <1>8, <1>11 DEF Waiting, Unreplied, Uncalled
<1> DEFINE replies == Serving!Replies(n, r)
<1>13. \/ replies = <<>> /\ r.id = 0
       \/ \E a \in ReplyType : /\ replies = <<a>> /\ a.of = n /\ Serving!AnswerIsRight(sent, a)
  BY <1>2, <1>9, RepliesAreRight
<1> HIDE DEF replies
<1>14. ServerTypeOK'
  <2>1. replies \in Seq(ReplyType)
    <3>1. CASE replies = <<>>
      BY <3>1
    <3>2. ASSUME NEW a \in ReplyType, replies = <<a>>
          PROVE  replies \in Seq(ReplyType)
      BY <3>2
    <3> QED
      BY <1>13, <3>1, <3>2, Zenon
  <2>2. handling' \in HandlingType
    BY <1>1, <1>2, <2>1 DEF HandlingType, replies
  <2> QED
    BY <1>0, <1>1, <1>2, <1>6, <1>11, <2>2 DEF ServerTypeOK
<1>15. OrderInv'
  BY <1>0, <1>1, <1>8, <1>11, <1>12 DEF OrderInv
<1>16. AnswersInv'
  <2>1. \A k \in DOMAIN sent : sent[k].id # 0 => k \in Unreplied' \/ \E m \in DOMAIN stdout : stdout[m].id = k
    BY <1>0, <1>12, Zenon DEF AnswersInv
  <2>2. handling'.reply = replies
    BY <1>11 DEF replies
  <2> QED
    BY <1>0, <1>1, <1>11, <1>13, <2>1, <2>2, Zenon DEF AnswersInv
<1>17. CalledTo(n)'
  <2>1. n \notin Uncalled' /\ \A k \in Uncalled' : n <= k
    BY <1>3, <1>8, <1>12
  <2>2. \A k \in DOMAIN sent : n < k /\ sent[k].method = "tools/call" => k \in Uncalled'
    <3> SUFFICES ASSUME NEW k \in DOMAIN sent, n < k, sent[k].method = "tools/call"
                 PROVE  k \in Uncalled'
      OBVIOUS
    <3>1. e < k /\ k # n
      BY <1>3, <1>7, <1>8
    <3>2. k \in Uncalled
      BY <1>7, <3>1 DEF CalledTo
    <3> QED
      BY <1>8, <1>12, <3>1, <3>2
  <2>3. \A m \in DOMAIN stdout : stdout[m].of <= n
    <3>1. \A m \in DOMAIN stdout : stdout[m].of < n
      BY <1>0, <1>8 DEF OrderInv
    <3>2. \A m \in DOMAIN stdout : stdout[m].of \in Nat
      BY <1>0, <1>3 DEF AnswersInv
    <3> QED
      BY <1>3, <3>1, <3>2
  <2>4. StoreIs(store', sent, n, IF n \in Uncalled' THEN 1 ELSE 0, kills)
    BY <1>10, <2>1
  <2> QED
    BY <1>1, <1>11, <2>1, <2>2, <2>3, <2>4 DEF CalledTo
<1>18. \E k \in 0 .. Len(sent') : CalledTo(k)'
  <2>1. n \in 0 .. Len(sent')
    BY <1>1, <1>3
  <2> QED
    BY <1>17, <2>1
<1> QED
  BY <1>14, <1>15, <1>16, <1>18 DEF ServerInv

\* The id of a reply, if it has one, is its request's place.
LEMMA IdIsPlace ==
    ASSUME ServerTypeOK, NEW a \in ReplyType, a.of \in DOMAIN sent, Serving!AnswerIsRight(sent, a)
    PROVE  a.id \in {0, a.of} /\ a.id = sent[a.of].id
BY Zenon DEF ServerTypeOK, RightRequest, Serving!AnswerIsRight

LEMMA WriteJSONKeeps ==
    ASSUME ServerInv, Serving!WriteJSON
    PROVE  ServerInv'
<1> PICK n : n = handling.id
  OBVIOUS
<1>0. ServerTypeOK /\ OrderInv /\ AnswersInv
  BY DEF ServerInv
<1>1. /\ handling.done /\ stdout' = stdout \o handling.reply /\ handling' = Serving!NoRequest
      /\ UNCHANGED <<sent, stdin, store, kills>>
  BY DEF Serving!WriteJSON
<1>2. ~ Resting /\ Resting' /\ handling'.done = FALSE
  BY <1>1, NoRequestIs DEF Resting
<1>3. n \in DOMAIN sent /\ stdout \in Seq(ReplyType) /\ DOMAIN sent \subseteq Nat
  BY <1>0, <1>2 DEF ServerTypeOK
<1>4. /\ Waiting' = Waiting /\ Uncalled = Waiting /\ Uncalled' = Waiting /\ Unreplied = Waiting \cup {n}
      /\ Unreplied' = Waiting /\ \A k \in Waiting : n < k
  BY <1>0, <1>1, <1>2 DEF Waiting, Uncalled, Unreplied, OrderInv
<1>5. PICK e \in 0 .. Len(sent) : CalledTo(e)
  BY DEF ServerInv
<1>6. e = n
  BY <1>1, <1>5 DEF CalledTo
<1>7. CalledTo(e) /\ stdout' = stdout => CalledTo(e)'
  BY <1>1, <1>2, <1>4 DEF CalledTo
<1>8. CASE handling.reply = <<>> /\ sent[n].id = 0
  <2>1. stdout' = stdout
    BY <1>1, <1>3, <1>8
  <2>2. ServerTypeOK'
    BY <1>0, <1>1, <1>2, <2>1 DEF ServerTypeOK
  <2>3. OrderInv'
    BY <1>0, <1>1, <1>2, <1>4, <2>1 DEF OrderInv
  <2>4. AnswersInv'
    <3>1. \A k \in DOMAIN sent : sent[k].id # 0 =>
            k \in Unreplied' \/ \E m \in DOMAIN stdout : stdout[m].id = k
      BY <1>0, <1>4, <1>8 DEF AnswersInv
    <3> QED
      BY <1>0, <1>1, <1>2, <2>1, <3>1, Zenon DEF AnswersInv
  <2> QED
    BY <1>1, <1>5, <1>7, <2>1, <2>2, <2>3, <2>4 DEF ServerInv
<1>9. ASSUME NEW a \in ReplyType, handling.reply = <<a>>, a.of = n, Serving!AnswerIsRight(sent, a)
      PROVE  ServerInv'
  <2> DEFINE k == Len(stdout) + 1
  <2>1. /\ stdout' \in Seq(ReplyType) /\ DOMAIN stdout' = (DOMAIN stdout) \cup {k} /\ stdout'[k] = a
        /\ \A m \in DOMAIN stdout : stdout'[m] = stdout[m] /\ m < k /\ m \in Nat
        /\ k \in Nat
    <3>1. stdout' = stdout \o <<a>>
      BY <1>1, <1>9
    <3> QED
      BY <1>3, <3>1
  <2> HIDE DEF k
  <2>2. \A m \in DOMAIN stdout : stdout[m].of < n
    BY <1>0, <1>4 DEF OrderInv
  <2>3. ServerTypeOK'
    BY <1>0, <1>1, <1>2, <2>1 DEF ServerTypeOK
  <2>4. OrderInv'
    <3>1. \A m \in DOMAIN stdout' : \A j \in Unreplied' : stdout'[m].of < j
      BY <1>0, <1>4, <1>9, <2>1 DEF OrderInv
    <3>2. \A m, j \in DOMAIN stdout' : m < j => stdout'[m].of < stdout'[j].of
      <4> SUFFICES ASSUME NEW m \in DOMAIN stdout', NEW j \in DOMAIN stdout', m < j
                   PROVE  stdout'[m].of < stdout'[j].of
        OBVIOUS
      <4>1. m \in DOMAIN stdout
        BY <2>1
      <4>2. CASE j = k
        BY <1>9, <2>1, <2>2, <4>1, <4>2
      <4>3. CASE j # k
        BY <1>0, <2>1, <4>1, <4>3 DEF OrderInv
      <4> QED
        BY <4>2, <4>3
    <3> QED
      BY <1>0, <1>1, <1>2, <3>1, <3>2 DEF OrderInv
  <2>5. AnswersInv'
    <3>1. a.id = sent[n].id /\ a.id \in {0, n}
      BY <1>0, <1>3, <1>9, IdIsPlace
    <3>2. \A j \in DOMAIN sent : sent[j].id # 0 =>
            j \in Unreplied' \/ \E m \in DOMAIN stdout' : stdout'[m].id = j
      <4> SUFFICES ASSUME NEW j \in DOMAIN sent, sent[j].id # 0
                   PROVE  j \in Unreplied' \/ \E m \in DOMAIN stdout' : stdout'[m].id = j
        OBVIOUS
      <4>1. CASE j = n
        BY <2>1, <3>1, <4>1
      <4>2. CASE j \in Waiting
        BY <1>4, <4>2
      <4>3. CASE \E m \in DOMAIN stdout : stdout[m].id = j
        BY <2>1, <4>3
      <4> QED
        BY <1>0, <1>4, <4>1, <4>2, <4>3 DEF AnswersInv
    <3>3. \A m \in DOMAIN stdout' :
            stdout'[m].of \in DOMAIN sent /\ Serving!AnswerIsRight(sent, stdout'[m])
      BY <1>0, <1>3, <1>9, <2>1 DEF AnswersInv
    <3> QED
      BY <1>1, <1>2, <3>2, <3>3, Zenon DEF AnswersInv
  <2>6. CalledTo(e)'
    <3>1. \A m \in DOMAIN stdout' : stdout'[m].of <= e
      BY <1>3, <1>5, <1>6, <1>9, <2>1 DEF CalledTo
    <3> QED
      BY <1>1, <1>2, <1>4, <1>5, <3>1 DEF CalledTo
  <2> QED
    BY <1>1, <1>5, <2>3, <2>4, <2>5, <2>6 DEF ServerInv
<1> QED
  BY <1>0, <1>1, <1>8, <1>9, Zenon DEF AnswersInv

LEMMA PromiseMore ==
    ASSUME NEW list \in Seq(Content), NEW requests, NEW e \in Nat, NEW name,
           NEW more \in {0, 1}, NEW most \in {0, 1}, NEW times \in Nat,
           Promise(list, requests, e, name, more, times)
    PROVE  Promise(list, requests, e, name, most, times + 1)
<1> SUFFICES ASSUME NEW c \in Content
             PROVE  /\ Cardinality(Serving!By(requests, e, {name}, c)) <= Serving!Made(list, c)
                    /\ Serving!Made(list, c) + most
                         <= Cardinality(Serving!By(requests, e, {name}, c)) + (times + 1)
  BY Zenon DEF Promise
<1> DEFINE asked == Cardinality(Serving!By(requests, e, {name}, c))
           made == Serving!Made(list, c)
<1>1. asked <= made /\ made + more <= asked + times
  BY Zenon DEF Promise
<1>2. asked \in Nat /\ made \in Nat
  BY ByType, MadeIs
<1> QED
  BY <1>1, <1>2

LEMMA RestartKeeps ==
    ASSUME ServerInv, Serving!Restart
    PROVE  ServerInv'
<1>0. ServerTypeOK /\ OrderInv /\ AnswersInv
  BY DEF ServerInv
<1>1. /\ handling' = Serving!NoRequest /\ stdin' = Serving!InOrder(Serving!Unanswered)
      /\ kills' = kills + 1 /\ UNCHANGED <<sent, stdout, store>>
  BY DEF Serving!Restart
<1>2. Resting' /\ handling'.done = FALSE
  BY <1>1, NoRequestIs DEF Resting
<1> DEFINE U == Serving!Unanswered
<1>3. /\ sent \in Seq(RequestType) /\ DOMAIN sent = 1 .. Len(sent) /\ Len(sent) \in Nat
      /\ DOMAIN sent \subseteq Nat /\ kills \in Nat /\ store \in StoreType /\ stdout \in Seq(ReplyType)
  BY <1>0 DEF ServerTypeOK
<1>4. U \in SUBSET (DOMAIN sent) /\ U \in SUBSET Nat /\ IsFiniteSet(U)
  <2>1. U \in SUBSET (DOMAIN sent)
    BY DEF Serving!Unanswered
  <2>2. IsFiniteSet(1 .. Len(sent))
    BY <1>3, FS_Interval
  <2> QED
    BY <1>3, <2>1, <2>2, FS_Subset
<1>5. \A n \in DOMAIN sent : n \in U <=> sent[n].id # 0 /\ \A m \in DOMAIN stdout : stdout[m].id # n
  BY DEF Serving!Unanswered, Serving!NoId
<1>6. U \subseteq Unreplied
  <2>0. \A n \in DOMAIN sent : sent[n].id # 0 =>
          n \in Unreplied \/ \E m \in DOMAIN stdout : stdout[m].id = n
    BY <1>0, Zenon DEF AnswersInv
  <2> HIDE DEF U
  <2>1. \A n \in DOMAIN sent : n \in U => n \in Unreplied
    BY <1>5, <2>0
  <2> QED
    BY <1>4, <2>1, Zenon
<1> HIDE DEF U
<1>7. /\ stdin' \in Seq(U)
      /\ \A i, j \in DOMAIN stdin' : i < j => stdin'[i] < stdin'[j]
      /\ {stdin'[i] : i \in DOMAIN stdin'} = U
  <2>1. stdin' = Serving!InOrder(U)
    BY <1>1 DEF U
  <2> QED
    BY <1>4, <2>1, PlacesInOrder
<1>8. Waiting' = U /\ Unreplied' = U /\ Uncalled' = U
  BY <1>2, <1>7 DEF Waiting, Unreplied, Uncalled
<1>9. ServerTypeOK'
  <2>1. stdin' \in Seq(DOMAIN sent)
    <3>1. \A i \in DOMAIN stdin' : stdin'[i] \in DOMAIN sent
      BY <1>4, <1>7
    <3> QED
      BY <1>7, <3>1
  <2>2. kills' \in Nat
    BY <1>1, <1>3
  <2> QED
    BY <1>0, <1>1, <1>2, <2>1, <2>2 DEF ServerTypeOK
<1>10. OrderInv'
  <2>1. \A m \in DOMAIN stdout : \A n \in U : stdout[m].of < n
    BY <1>0, <1>6 DEF OrderInv
  <2> QED
    BY <1>0, <1>1, <1>2, <1>7, <1>8, <2>1 DEF OrderInv
<1>11. AnswersInv'
  <2>1. \A n \in DOMAIN sent : sent[n].id # 0 =>
          n \in Unreplied' \/ \E m \in DOMAIN stdout : stdout[m].id = n
    BY <1>5, <1>8, Zenon
  <2> QED
    BY <1>0, <1>1, <1>2, <2>1, Zenon DEF AnswersInv
<1>12. PICK e \in 0 .. Len(sent) : CalledTo(e)
  BY DEF ServerInv
<1>13. CalledTo(e)'
  <2>0. e \in Nat
    BY <1>3
  <2>1. \A n \in Uncalled' : e <= n
    <3> SUFFICES ASSUME NEW n \in U
                 PROVE  e <= n
      BY <1>8
    <3>1. n \in Unreplied /\ n \in Nat
      BY <1>4, <1>6
    <3>2. CASE n \in Uncalled
      BY <1>12, <3>2 DEF CalledTo
    <3>3. CASE n \notin Uncalled
      <4>1. handling.done /\ n = handling.id
        BY <3>1, <3>3 DEF Unreplied, Uncalled
      <4>2. n = e
        BY <1>12, <4>1 DEF CalledTo
      <4> QED
        BY <2>0, <4>2
    <3> QED
      BY <3>2, <3>3
  <2>2. \A n \in DOMAIN sent : e < n /\ sent[n].method = "tools/call" => n \in Uncalled'
    <3> SUFFICES ASSUME NEW n \in DOMAIN sent, e < n, sent[n].method = "tools/call"
                 PROVE  n \in U
      BY <1>8
    <3>1. sent[n].id # 0
      <4>1. sent[n].method \notin {"notifications/cancelled", "garbage"}
        OBVIOUS
      <4> QED
        BY <1>0, <4>1, Zenon DEF ServerTypeOK, RightRequest
    <3>2. \A m \in DOMAIN stdout : stdout[m].id # n
      <4> SUFFICES ASSUME NEW m \in DOMAIN stdout
                   PROVE  stdout[m].id # n
        OBVIOUS
      <4>1. stdout[m].of \in DOMAIN sent /\ Serving!AnswerIsRight(sent, stdout[m])
        BY <1>0 DEF AnswersInv
      <4>2. stdout[m].id \in {0, stdout[m].of}
        BY <1>0, <1>3, <4>1, IdIsPlace
      <4>3. stdout[m].of <= e
        BY <1>12 DEF CalledTo
      <4> QED
        BY <1>3, <2>0, <4>1, <4>2, <4>3
    <3> QED
      BY <1>5, <3>1, <3>2
  <2>3. StoreIs(store, sent, e, IF e \in Uncalled' THEN 1 ELSE 0, kills + 1)
    <3> DEFINE more == IF e \in Uncalled THEN 1 ELSE 0
               most == IF e \in Uncalled' THEN 1 ELSE 0
    <3>1. more \in {0, 1} /\ most \in {0, 1}
      OBVIOUS
    <3>2. StoreIs(store, sent, e, more, kills)
      BY <1>12, Zenon DEF CalledTo
    <3> HIDE DEF more, most
    <3>3. store.reminders \in Seq(Content) /\ store.queue \in Seq(Content)
      BY <1>3 DEF StoreType
    <3>4. /\ store.memories = Serving!WrittenBy(sent, e) /\ store.states = Serving!SetBy(sent, e)
          /\ Promise(store.reminders, sent, e, "memory_remind", more, kills)
          /\ Promise(store.queue, sent, e, "memory_graduate", more, kills)
      BY <3>2, Zenon DEF StoreIs
    <3>5. /\ Promise(store.reminders, sent, e, "memory_remind", most, kills + 1)
          /\ Promise(store.queue, sent, e, "memory_graduate", most, kills + 1)
      BY <1>3, <2>0, <3>1, <3>3, <3>4, PromiseMore
    <3>6. StoreIs(store, sent, e, most, kills + 1)
      BY <3>4, <3>5, Zenon DEF StoreIs
    <3> QED
      BY <3>6 DEF most
  <2>4. \A m \in DOMAIN stdout : stdout[m].of <= e
    BY <1>12 DEF CalledTo
  <2> QED
    BY <1>1, <1>2, <2>1, <2>2, <2>3, <2>4 DEF CalledTo
<1> QED
  BY <1>1, <1>9, <1>10, <1>11, <1>12, <1>13 DEF ServerInv

LEMMA ServerBegins ==
    ASSUME Serving!McpInit
    PROVE  ServerInv
<1>1. /\ sent = <<>> /\ stdin = <<>> /\ handling = Serving!NoRequest /\ stdout = <<>> /\ kills = 0
      /\ store = [memories |-> {}, states |-> {}, reminders |-> <<>>, queue |-> <<>>]
  BY DEF Serving!McpInit
<1>2. Resting /\ handling.done = FALSE
  BY <1>1, NoRequestIs DEF Resting
<1>3. Waiting = {} /\ Unreplied = {} /\ Uncalled = {}
  BY <1>1, <1>2 DEF Waiting, Unreplied, Uncalled
<1>4. store \in StoreType
  BY <1>1 DEF StoreType
<1>5. ServerTypeOK
  BY <1>1, <1>2, <1>4 DEF ServerTypeOK
<1>6. OrderInv
  BY <1>1, <1>2, <1>3 DEF OrderInv
<1>7. AnswersInv
  BY <1>1, <1>2 DEF AnswersInv
<1>8. \A tools, c : Serving!By(sent, 0, tools, c) = {}
  BY DEF Serving!By
<1>9. Serving!WrittenBy(sent, 0) = {} /\ Serving!SetBy(sent, 0) = {}
  BY <1>8 DEF Serving!WrittenBy, Serving!SetBy
<1>10. \A name : Promise(<<>>, sent, 0, name, 0, 0)
  <2>1. Cardinality({}) = 0
    BY FS_EmptySet
  <2>2. \A name, c : Cardinality(Serving!By(sent, 0, {name}, c)) = 0
    BY <1>8, <2>1, Zenon
  <2>3. \A c : Serving!Made(<<>>, c) = 0
    BY NoneMade
  <2> QED
    BY <2>2, <2>3 DEF Promise
<1>11. StoreIs(store, sent, 0, 0, kills)
  BY <1>1, <1>9, <1>10 DEF StoreIs
<1>12. CalledTo(0)
  BY <1>1, <1>2, <1>3, <1>11 DEF CalledTo
<1>13. 0 \in 0 .. Len(sent)
  BY <1>1
<1> QED
  BY <1>5, <1>6, <1>7, <1>12, <1>13 DEF ServerInv

LEMMA ServerKeeps ==
    ASSUME ServerInv, Serving!McpNext
    PROVE  ServerInv'
BY SendKeeps, ReadLineKeeps, HandleKeeps, WriteJSONKeeps, RestartKeeps, Zenon DEF Serving!McpNext

LEMMA ServerUnchanged ==
    ASSUME ServerInv, UNCHANGED toolVars
    PROVE  ServerInv'
<1>1. UNCHANGED <<sent, stdin, handling, stdout, store, kills>>
  BY DEF toolVars
<1>2. /\ Resting' = Resting /\ Waiting' = Waiting /\ Unreplied' = Unreplied /\ Uncalled' = Uncalled
  BY <1>1 DEF Resting, Waiting, Unreplied, Uncalled
<1> QED
  BY <1>1, <1>2 DEF ServerInv, ServerTypeOK, OrderInv, AnswersInv, CalledTo, Resting, Waiting, Unreplied

\* A list has what was promised.
LEMMA PromisesKept ==
    ASSUME ServerTypeOK, OrderInv, AnswersInv, NEW e \in 0 .. Len(sent), CalledTo(e),
           NEW name, NEW list \in Seq(Content), NEW more \in {0, 1},
           Promise(list, sent, e, name, more, kills), NEW c \in Content
    PROVE  Serving!Made(list, c) \in Serving!Promised(name, c) .. Serving!Asked(name, c) + kills
<1> DEFINE P == {n \in DOMAIN stdout : sent[stdout[n].of].tool = name /\ sent[stdout[n].of].content = c}
           B == Serving!By(sent, e, {name}, c)
           made == Serving!Made(list, c)
<1>1. /\ e \in Nat /\ Len(sent) \in Nat /\ e <= Len(sent) /\ kills \in Nat /\ stdout \in Seq(ReplyType)
      /\ DOMAIN sent = 1 .. Len(sent)
  BY DEF ServerTypeOK
<1>2. /\ IsFiniteSet(B) /\ Cardinality(B) \in Nat /\ made \in Nat
      /\ Cardinality(Serving!By(sent, Len(sent), {name}, c)) \in Nat
      /\ Cardinality(B) <= Cardinality(Serving!By(sent, Len(sent), {name}, c))
  BY <1>1, ByType, ByMore, MadeIs
<1>3. Cardinality(B) <= made /\ made + more <= Cardinality(B) + kills
  BY Zenon DEF Promise
<1>4. Serving!Promised(name, c) = Cardinality(P) /\ Serving!Asked(name, c)
        = Cardinality(Serving!By(sent, Len(sent), {name}, c))
  BY SameNumber, Zenon DEF Serving!Promised, Serving!Asked
<1>5. IsFiniteSet(P)
  <2>1. P \in SUBSET (1 .. Len(stdout)) /\ Len(stdout) \in Nat
    BY <1>1
  <2>2. IsFiniteSet(1 .. Len(stdout))
    BY <2>1, FS_Interval
  <2> QED
    BY <2>1, <2>2, FS_Subset
<1>6. Cardinality(P) <= Cardinality(B)
  <2> DEFINE f == [n \in P |-> stdout[n].of]
  <2>1. \A n \in P : stdout[n].of \in B
    <3> TAKE n \in P
    <3>1. stdout[n].of \in DOMAIN sent /\ stdout[n].of <= e
      BY DEF AnswersInv, CalledTo
    <3> QED
      BY <1>1, <3>1 DEF Serving!By
  <2>2. \A m, n \in P : m # n => stdout[m].of # stdout[n].of
    <3>1. \A m, n \in P : m < n => stdout[m].of < stdout[n].of
      BY DEF OrderInv
    <3>2. \A n \in P : n \in Nat /\ stdout[n].of \in Nat
      BY <1>1 DEF AnswersInv
    <3>3. \A m, n \in P : m < n \/ n < m \/ m = n
      BY <3>2
    <3> QED
      BY <3>1, <3>2, <3>3
  <2> HIDE DEF P, B
  <2>3. f \in Injection(P, B)
    BY <2>1, <2>2 DEF Injection, IsInjective
  <2> QED
    BY <1>2, <2>3, FS_Injection
<1>7. Cardinality(P) \in Nat
  BY <1>5, FS_CardinalityType
<1> HIDE DEF P, B, made
<1>8. made \in Cardinality(P) .. Cardinality(Serving!By(sent, Len(sent), {name}, c)) + kills
  BY <1>1, <1>2, <1>3, <1>6, <1>7
<1> QED
  BY <1>4, <1>8 DEF made

LEMMA ServerTells ==
    ASSUME ServerInv
    PROVE  Serving!AnsweredInOrder
<1>0. ServerTypeOK /\ OrderInv /\ AnswersInv
  BY DEF ServerInv
<1>1. PICK e \in 0 .. Len(sent) : CalledTo(e)
  BY DEF ServerInv
<1> DEFINE more == IF e \in Uncalled THEN 1 ELSE 0
<1>2. /\ Promise(store.reminders, sent, e, "memory_remind", more, kills)
      /\ Promise(store.queue, sent, e, "memory_graduate", more, kills)
  BY <1>1, Zenon DEF CalledTo, StoreIs
<1>3. more \in {0, 1} /\ store.reminders \in Seq(Content) /\ store.queue \in Seq(Content)
  BY <1>0 DEF ServerTypeOK, StoreType
<1> HIDE DEF more
<1>4. \A c \in Content :
         /\ Serving!Made(store.reminders, c) \in
              Serving!Promised("memory_remind", c) .. Serving!Asked("memory_remind", c) + kills
         /\ Serving!Made(store.queue, c) \in
              Serving!Promised("memory_graduate", c) .. Serving!Asked("memory_graduate", c) + kills
  BY <1>0, <1>1, <1>2, <1>3, PromisesKept
<1> QED
  BY <1>0, <1>4, Zenon DEF Serving!AnsweredInOrder, OrderInv, AnswersInv
=============================================================================
