------------------------------- MODULE MCSse -------------------------------
(***************************************************************************)
(* The two halves of internal/sse in one run: a loop around an event       *)
(* source, or the reader of one connection's lines.  A behaviour is of one *)
(* half; the other stays in an initial state.                              *)
(***************************************************************************)
EXTENDS SseLoops, SseReader

MCTexts == {<<NoValue>>} \cup {<<v, NoValue>> : v \in Values} \cup {<<v>> : v \in Values}

\* The loop named while the reader runs.
ASSUME MCConstants == "library" \in Loops

VARIABLE half   \* "source" or "reader"

MCInit ==
  /\ half \in {"source", "reader"}
  /\ IF half = "source"
     THEN /\ LoopsInit
          /\ sent = <<>> /\ wire = <<>> /\ cut = TRUE /\ lineNo = 0
          /\ event = NoEvent /\ idPresent = FALSE /\ lastRead = NoValue /\ out = <<>>
     ELSE /\ Init /\ interval = "some"
          /\ loop = "library" /\ at = "connect" /\ cancelled = FALSE
          /\ ReaderInit

MCNext ==
  /\ UNCHANGED half
  /\ \/ half = "source" /\ LoopsNext /\ UNCHANGED readerVars
     \/ half = "reader" /\ ReaderNext /\ UNCHANGED allVars

MCSpec ==
  /\ MCInit /\ [][MCNext]_<<allVars, readerVars, half>>
  /\ WF_vars(Local /\ Stay /\ UNCHANGED <<readerVars, half>>)
  /\ WF_vars(Establish /\ Stay /\ UNCHANGED <<readerVars, half>>)

MCTypeOK == LoopsTypeOK /\ ReaderTypeOK

=============================================================================
