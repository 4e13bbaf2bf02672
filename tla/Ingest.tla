------------------------------- MODULE Ingest -------------------------------
(***************************************************************************)
(* Taking in what other programs write (ingest/*.go): the conversations of *)
(* zcode and of Claude, which grow line by line while they are read, notes *)
(* of Claude in Markdown, and pages of Logseq, which Obsidian's are like.  *)
(* A source is read from its beginning every time, and what is known       *)
(* already is known by its content.  The daemon's task reads zcode only    *)
(* (daemon/ingest.go); the other sources are read when a user runs         *)
(* memory ingest (cmd/ingest.go), which may be never.                      *)
(*                                                                         *)
(* A line of a rollout is a turn: the newest prompt in its window of       *)
(* messages, and the text of the answer.  The entries of a transcript name *)
(* their parents, by which they find the prompt they belong to.            *)
(***************************************************************************)
EXTENDS Integers, Sequences, FiniteSets, SequencesExt, Functions

CONSTANTS
    Given,       \* prompts a user gives
    Noise,       \* those of them that are filtered: greetings, commands
    Answer,      \* texts of answers
    NoText,      \* the text of a turn that only calls tools
    Entry,       \* entries of a transcript, as they are written: 1 .. n
    Parent,      \* the entry each names as its parent: itself or a later one if it is damaged
    PromptId,    \* the id an entry has itself, or None
    Section,     \* sections a note may have, in the order it gets them
    Bare,        \* those of them that are a heading only
    None,
    Reader,      \* who reads the sources: "daemon" and "command"
    MaxTurns, MaxFaults   \* bounds

VARIABLES
    source,      \* the adapter that is run: "zcode", "conversations", "notes" or "pages"
    rollout,     \* the turns of a zcode rollout
    partial,     \* is the last line not yet complete?
    transcript,  \* the number of entries of a transcript
    note,        \* the number of sections of a note or page
    reading,     \* reader -> what it has read and not yet written
    rows,        \* the memories: content -> prompt id
    faults

ingestVars == <<source, rollout, partial, transcript, note, reading, rows, faults>>

\* The adapters have nothing in common: a behaviour is about one of them.
IngestInit ==
    /\ source \in {"zcode", "conversations", "notes", "pages"}
    /\ rollout = <<>> /\ partial = FALSE /\ transcript = 0 /\ note = 0
    /\ reading = [r \in Reader |-> <<>>]
    /\ rows = [c \in {} |-> None] /\ faults = 0

-----------------------------------------------------------------------------
(* The adapters *)

Memory(content, prompt) == [content |-> content, prompt |-> prompt]

\* Mutant: every turn is paired with the prompt in its window.
PairedAgain(acc, turn) ==
    LET told == IF turn.prompt \in Noise THEN None ELSE turn.prompt
    IN  [acc EXCEPT !.made = Append(@, <<told, turn.text>>)]

\* parseZcodeRollout, a turn with a text: a prompt other than the last that was seen is new,
\* and is paired with the first answer; later answers are kept without it.
Paired(acc, turn) ==
    LET new == turn.prompt \notin {None, acc.last}
        waits == new \/ ~acc.paired
        told == IF waits /\ turn.prompt \notin Noise THEN turn.prompt ELSE None
    IN  [last |-> IF new THEN turn.prompt ELSE acc.last,
         paired |-> (acc.paired /\ ~new) \/ told # None,
         made |-> Append(acc.made, <<told, turn.text>>)]

\* The loop over the lines: what is known after the first n of them.
Scanned(lines) ==
    LET after[n \in 0 .. Len(lines)] ==
          IF n = 0 THEN [last |-> None, paired |-> FALSE, made |-> <<>>]
          ELSE IF lines[n].text = NoText THEN after[n - 1]
          ELSE Paired(after[n - 1], lines[n])
    IN  after

\* A last line that is not complete cannot be parsed, and is skipped.
Complete == IF partial THEN Len(rollout) - 1 ELSE Len(rollout)

fromRollout == Scanned(rollout)[Complete].made

\* resolvePromptID: the first ancestor with an id, among the entries there are; a cycle ends it.
resolvePromptID(e) ==
    LET Walk[n \in 0 .. transcript] ==   \* the ancestors that n steps reach, and where the walk is
          IF n = 0 THEN [at |-> e, id |-> PromptId[e], seen |-> {e}]
          ELSE LET w == Walk[n - 1] IN
            IF w.id # None \/ Parent[w.at] \in w.seen \/ Parent[w.at] \notin 1 .. transcript THEN w
            ELSE [at |-> Parent[w.at], id |-> PromptId[Parent[w.at]], seen |-> w.seen \cup {Parent[w.at]}]
    IN  Walk[transcript].id

fromTranscript == [e \in 1 .. transcript |-> Memory(<<"entry", e>>, resolvePromptID(e))]

\* chunkMarkdown: a note with more than one section is taken apart, and bare headings are
\* left out.
fromNote ==
    LET whole == {n \in 1 .. note : note = 1 \/ Section[n] \notin Bare}
    IN  [i \in 1 .. Cardinality(whole) |->
           Section[CHOOSE n \in whole : Cardinality({m \in whole : m < n}) = i - 1]]

\* A page is one memory: when it has grown, it is another.
fromPage == IF note = 0 THEN <<>> ELSE <<note>>

Ingested ==
    CASE source = "zcode" -> [n \in DOMAIN fromRollout |-> Memory(fromRollout[n], None)]
      [] source = "conversations" -> fromTranscript
      [] source = "notes" -> [n \in DOMAIN fromNote |-> Memory(<<"note", fromNote[n]>>, None)]
      [] source = "pages" -> [n \in DOMAIN fromPage |-> Memory(<<"page", fromPage[n]>>, None)]

-----------------------------------------------------------------------------
(* The sources grow *)

Grow == UNCHANGED <<source, reading, rows, faults>>

\* A line is written in two parts; the reader cannot parse the first.
BeginTurn(prompt, text) ==
    /\ source = "zcode" /\ ~partial /\ Len(rollout) < MaxTurns
    /\ rollout' = Append(rollout, [prompt |-> prompt, text |-> text]) /\ partial' = TRUE
    /\ UNCHANGED <<transcript, note>> /\ Grow

EndTurn == partial /\ partial' = FALSE /\ UNCHANGED <<rollout, transcript, note>> /\ Grow

WriteEntry ==
    /\ source = "conversations" /\ transcript + 1 \in Entry /\ transcript' = transcript + 1
    /\ UNCHANGED <<rollout, partial, note>> /\ Grow

WriteSection ==
    /\ source \in {"notes", "pages"} /\ note < Len(Section) /\ note' = note + 1
    /\ UNCHANGED <<rollout, partial, transcript>> /\ Grow

-----------------------------------------------------------------------------
(* A run of the task or of the command *)

Sources == UNCHANGED <<source, rollout, partial, transcript, note>>

Read(r) ==
    /\ r = "daemon" => source = "zcode"
    /\ reading[r] = <<>> /\ reading' = [reading EXCEPT ![r] = Ingested]
    /\ Sources /\ UNCHANGED <<rows, faults>>

\* Mutant: of a known content nothing is written.
StoredOnce(m) ==
    IF m.content \in DOMAIN rows THEN rows
    ELSE [c \in DOMAIN rows \cup {m.content} |-> IF c = m.content THEN m.prompt ELSE rows[c]]

\* IngestMemory: a known content only gets the columns that are still empty.
Stored(m) ==
    IF m.content \notin DOMAIN rows THEN [c \in DOMAIN rows \cup {m.content} |->
                                            IF c = m.content THEN m.prompt ELSE rows[c]]
    ELSE IF rows[m.content] = None THEN [rows EXCEPT ![m.content] = m.prompt]
    ELSE rows

\* An error skips the memory, and the run goes on.
Write(r) ==
    /\ reading[r] # <<>> /\ reading' = [reading EXCEPT ![r] = Tail(@)]
    /\ \/ rows' = Stored(Head(reading[r])) /\ UNCHANGED faults
       \/ faults < MaxFaults /\ faults' = faults + 1 /\ UNCHANGED rows
    /\ Sources

Kill(r) ==
    /\ reading[r] # <<>> /\ faults < MaxFaults /\ faults' = faults + 1
    /\ reading' = [reading EXCEPT ![r] = <<>>]
    /\ Sources /\ UNCHANGED rows

\* memory delete
Delete(c) ==
    /\ faults < MaxFaults /\ faults' = faults + 1
    /\ rows' = [d \in DOMAIN rows \ {c} |-> rows[d]]
    /\ Sources /\ UNCHANGED reading

IngestNext ==
    \/ \E p \in Given \cup {None}, t \in Answer \cup {NoText} : BeginTurn(p, t)
    \/ EndTurn \/ WriteEntry \/ WriteSection
    \/ \E r \in Reader : Read(r) \/ Write(r) \/ Kill(r)
    \/ \E c \in DOMAIN rows : Delete(c)

\* The scheduler runs the task again and again, and a run goes through its list.  Nothing makes
\* a user run the command.
DaemonReads == Read("daemon") \/ Write("daemon")

IngestSpec == IngestInit /\ [][IngestNext]_ingestVars /\ WF_ingestVars(DaemonReads)

-----------------------------------------------------------------------------
(* Properties *)

\* "a prompt paired once must NOT be re-paired on later turns" (zcode.go:97): of the memories
\* with a prompt there are no more than the times it came anew, however often the growing
\* file was read, and none is noise.
CameAnew(p) ==
    {n \in DOMAIN rollout :
       /\ rollout[n].prompt = p
       /\ \A m \in 1 .. n - 1 :
            rollout[m].prompt = p => \E k \in m + 1 .. n - 1 : rollout[k].prompt \notin {None, p}}

PairedWith(p) == {c \in DOMAIN rows : c[1] = p}

PromptsOnce ==
    \A p \in Given :
      /\ Cardinality(PairedWith(p)) <= Cardinality(CameAnew(p))
      /\ p \in Noise => PairedWith(p) = {}

\* Again and again all that a source has is in the memories, with the prompt its chain of
\* parents leads to, though runs are killed, writes fail, rows are deleted and others write the
\* same; as the sources stop growing here, nothing they have is missing in the end.  For zcode
\* the daemon sees to it; what the other sources have is kept only if a user runs the command
\* again and again.
Kept(m) == m.content \in DOMAIN rows /\ (rows[m.content] = m.prompt \/ m.prompt = None)

EverythingIsKept ==
    (source = "zcode" \/ []<><<Read("command")>>_ingestVars)
      => []<>(\A m \in ToSet(Ingested) : Kept(m))
=============================================================================
