----------------------------- MODULE MCUpgrade -----------------------------
EXTENDS Upgrade
CONSTANTS x, y

\* A database of a version without raw capture, and with the old table of links.
MCSchemaColumns == {"phase", "session_id", "processed_by"}
MCColumns == <<"session_id", "processed_by", "raw_entry_id", "project">>
MCVintage ==
    {[cols |-> MCSchemaColumns, sourced |-> FALSE, provenance |-> FALSE, targetKey |-> TRUE,
      tokenizer |-> "unicode61"]}
=============================================================================
