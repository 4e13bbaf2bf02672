------------------------------ MODULE Rebuild ------------------------------
(***************************************************************************)
(* memory rebuild (store/rebuild.go): the event log is the source of       *)
(* truth, and the derived tables are made anew from it (--full) or from    *)
(* the memories (the default).  Both are many statements in no             *)
(* transaction; other processes write, settle, link, extract and delete    *)
(* meanwhile, and the rebuild may be killed.                               *)
(*                                                                         *)
(* A row is its content, whose hash is unique among the rows.  A write is  *)
(* one transaction; a delete is taken as one step here (MemoryStore has    *)
(* its two statements).                                                    *)
(***************************************************************************)
EXTENDS Naturals, Sequences, FiniteSets, SequencesExt

CONSTANTS
    Content,
    Noise,       \* contents that isNoiseEvent keeps out of the derived tables
    Wiki,        \* pairs of contents, of which the first names the second's title
    MaxFaults    \* bound: kills, failing statements, and changes by others while a
                 \*   rebuild is at work, together

VARIABLES
    log,       \* raw_entries, in rowid order
    mem,       \* memories: content -> its phase, or "none"
    tagged,    \* contents with keyword tags
    links,     \* links: pairs of contents
    indexed,   \* memories_fts: content -> entries, or Dropped while there is no table
    mentioned, \* contents with entity mentions
    rebuild,   \* where the rebuild is, with its locals
    fresh,     \* history: what the last rebuild has just made, with nothing changed since
    faults

tables == <<mem, tagged, links, indexed, mentioned>>
vars == <<log, tables, rebuild, fresh, faults>>

Dropped == <<>>
Rows == {c \in Content : mem[c] # "none"}
Once(cs) == [c \in Content |-> IF c \in cs THEN 1 ELSE 0]
Idle == [step |-> "idle", mode |-> "", clean |-> TRUE, todo |-> <<>>, rows |-> {}]

Init ==
    /\ log = <<>> /\ mem = [c \in Content |-> "none"]
    /\ tagged = {} /\ links = {} /\ indexed = Once({}) /\ mentioned = {}
    /\ rebuild = Idle /\ fresh = "" /\ faults = 0

\* ResolveBacklinks: both directions, if both are in the list.
Backlinks(cs) == UNION {{<<d[1], d[2]>>, <<d[2], d[1]>>} : d \in {d \in Wiki : {d[1], d[2]} \subseteq cs}}

\* InsertMemory: a content that has a row adopts it and leaves the index alone.
Inserted(c) ==
    /\ log' = IF Contains(log, c) THEN log ELSE Append(log, c)
    /\ tagged' = tagged \cup {c}
    /\ IF mem[c] # "none" THEN UNCHANGED <<mem, indexed>>
       ELSE /\ indexed # Dropped
            /\ mem' = [mem EXCEPT ![c] = "inbox"]
            /\ indexed' = [indexed EXCEPT ![c] = @ + 1]
    /\ UNCHANGED <<links, mentioned>>

-----------------------------------------------------------------------------
(* The rebuild *)

At(step) == rebuild.step = step
Go(step) == rebuild' = [rebuild EXCEPT !.step = step]
Quiet == UNCHANGED <<log, fresh, faults>>

\* An empty log is refused.
ListRawEntries ==
    /\ At("idle") /\ log # <<>> /\ indexed # Dropped
    /\ rebuild' = [Idle EXCEPT !.step = "memories", !.mode = "full", !.todo = log]
    /\ fresh' = "" /\ UNCHANGED <<log, tables, faults>>

\* Mutant: the index is left as it is.
AfterWipeNoIndex ==
    [memories |-> "tags", tags |-> "links", links |-> "entity_mentions",
     memories_fts |-> "replay", entity_mentions |-> "replay"]

\* The order of the tables; entities is taken together with entity_mentions.
AfterWipe ==
    [memories |-> "tags", tags |-> "links", links |-> "memories_fts",
     memories_fts |-> "entity_mentions", entity_mentions |-> "replay"]

\* One DELETE per table.
Wipe ==
    /\ \/ At("memories") /\ mem' = [c \in Content |-> "none"] /\ Go(AfterWipe.memories)
                         /\ UNCHANGED <<tagged, links, indexed, mentioned>>
       \/ At("tags") /\ tagged' = {} /\ Go(AfterWipe.tags)
                     /\ UNCHANGED <<mem, links, indexed, mentioned>>
       \/ At("links") /\ links' = {} /\ Go(AfterWipe.links)
                      /\ UNCHANGED <<mem, tagged, indexed, mentioned>>
       \/ At("memories_fts") /\ indexed' = Once({}) /\ Go(AfterWipe.memories_fts)
                             /\ UNCHANGED <<mem, tagged, links, mentioned>>
       \/ At("entity_mentions") /\ mentioned' = {} /\ Go(AfterWipe.entity_mentions)
                                /\ UNCHANGED <<mem, tagged, links, indexed>>
    /\ UNCHANGED <<log, fresh>>

\* The error of a DELETE is dropped.
WipeFails ==
    /\ rebuild.step \in DOMAIN AfterWipe
    /\ rebuild' = [rebuild EXCEPT !.step = AfterWipe[@], !.clean = FALSE]
    /\ faults < MaxFaults /\ faults' = faults + 1
    /\ UNCHANGED <<log, tables, fresh>>

\* An event is noise, or is ingested once more.
Replay ==
    /\ At("replay") /\ rebuild.todo # <<>>
    /\ rebuild' = [rebuild EXCEPT !.todo = Tail(@)]
    /\ LET c == Head(rebuild.todo) IN
         IF c \in Noise THEN UNCHANGED <<log, tables>> ELSE Inserted(c)
    /\ UNCHANGED <<fresh, faults>>

Replayed ==
    /\ At("replay") /\ rebuild.todo = <<>> /\ Go("list")
    /\ Quiet /\ UNCHANGED tables

\* rebuildFTS drops the table, creates it, and fills it.
DropIndex ==
    /\ At("idle")
    /\ rebuild' = [Idle EXCEPT !.step = "create", !.mode = "indexes"]
    /\ indexed' = Dropped /\ fresh' = ""
    /\ UNCHANGED <<log, mem, tagged, links, mentioned, faults>>

CreateIndex ==
    /\ At("create") /\ Go("fill")
    /\ indexed' = IF indexed = Dropped THEN Once({}) ELSE indexed
    /\ Quiet /\ UNCHANGED <<mem, tagged, links, mentioned>>

FillIndex ==
    /\ At("fill") /\ Go("wipe derived links")
    /\ indexed' = [c \in Content |-> indexed[c] + Once(Rows)[c]]
    /\ Quiet /\ UNCHANGED <<mem, tagged, links, mentioned>>

WipeLinks ==
    /\ At("wipe derived links") /\ Go("list")
    /\ links' = {}
    /\ Quiet /\ UNCHANGED <<mem, tagged, indexed, mentioned>>

\* ResolveBacklinks lists the memories, and then inserts a link after the other.
List ==
    /\ At("list") /\ rebuild' = [rebuild EXCEPT !.step = "link", !.rows = Rows]
    /\ Quiet /\ UNCHANGED tables

InsertLink ==
    /\ At("link")
    /\ \E l \in Backlinks(rebuild.rows) \ links : links' = links \cup {l}
    /\ Quiet /\ UNCHANGED <<mem, tagged, indexed, mentioned, rebuild>>

Linked ==
    /\ At("link") /\ Backlinks(rebuild.rows) \subseteq links
    /\ Go(IF rebuild.mode = "full" THEN "done" ELSE "tag")
    /\ Quiet /\ UNCHANGED tables

\* The tags of all memories; the inserts ignore what is there.
Tag ==
    /\ At("tag") /\ Go("done")
    /\ tagged' = tagged \cup Rows
    /\ Quiet /\ UNCHANGED <<mem, links, indexed, mentioned>>

Done ==
    /\ At("done") /\ rebuild' = Idle
    /\ fresh' = IF rebuild.clean THEN rebuild.mode ELSE ""
    /\ UNCHANGED <<log, tables, faults>>

RebuildStep ==
    \/ ListRawEntries \/ Wipe \/ Replay \/ Replayed
    \/ DropIndex \/ CreateIndex \/ FillIndex \/ WipeLinks
    \/ List \/ InsertLink \/ Linked \/ Tag \/ Done

-----------------------------------------------------------------------------
(* The rest of the system *)

Others ==
    /\ At("idle") \/ faults < MaxFaults
    /\ faults' = IF At("idle") THEN faults ELSE faults + 1
    /\ rebuild' = [rebuild EXCEPT !.clean = At("idle")] /\ fresh' = ""

\* Whoever opens the database creates the tables that are missing.
Open ==
    /\ indexed = Dropped /\ indexed' = Once({})
    /\ Others /\ UNCHANGED <<log, mem, tagged, links, mentioned>>

IngestMemory(c) == Inserted(c) /\ Others

\* The daemon settles a memory, and extracts its entities; a person links two.
Settle(c) ==
    /\ mem[c] = "inbox" /\ mem' = [mem EXCEPT ![c] = "settled"]
    /\ Others /\ UNCHANGED <<log, tagged, links, indexed, mentioned>>

RecordMention(c) ==
    /\ mem[c] = "settled" /\ mentioned' = mentioned \cup {c}
    /\ Others /\ UNCHANGED <<log, mem, tagged, links, indexed>>

LinkMemories(c, d) ==
    /\ {c, d} \subseteq Rows /\ links' = links \cup {<<c, d>>, <<d, c>>}
    /\ Others /\ UNCHANGED <<log, mem, tagged, indexed, mentioned>>

Delete(c) ==
    /\ mem[c] # "none" /\ indexed # Dropped
    /\ mem' = [mem EXCEPT ![c] = "none"] /\ indexed' = [indexed EXCEPT ![c] = 0]
    /\ tagged' = tagged \ {c} /\ links' = {l \in links : c \notin {l[1], l[2]}}
    /\ Others /\ UNCHANGED <<log, mentioned>>

Kill ==
    /\ ~At("idle") /\ rebuild' = Idle
    /\ faults < MaxFaults /\ faults' = faults + 1
    /\ UNCHANGED <<log, tables, fresh>>

Next ==
    \/ RebuildStep /\ UNCHANGED faults
    \/ WipeFails \/ Kill \/ Open
    \/ \E c \in Content : IngestMemory(c) \/ Settle(c) \/ RecordMention(c) \/ Delete(c)
    \/ \E c, d \in Content : c # d /\ LinkMemories(c, d)

Spec == Init /\ [][Next]_vars

-----------------------------------------------------------------------------
(* Properties *)

\* "every derived structure must be reproducible from it" (rebuild.go:12): a full rebuild
\* that ran alone has every event that is no noise as a memory of the inbox, whatever
\* was killed, deleted or left half made before; and either mode leaves one index entry
\* for each memory, its tags, and the links its content names.
RebuildRestores ==
    fresh # "" =>
      /\ indexed = Once(Rows) /\ Rows \subseteq tagged /\ links = Backlinks(Rows)
      /\ fresh = "full" =>
           /\ Rows = ToSet(log) \ Noise /\ \A c \in Rows : mem[c] = "inbox"
           /\ mentioned = {}
=============================================================================
