------------------------------ MODULE SseLoops ------------------------------
(***************************************************************************)
(* The loops of internal/redfish/redfish.go around an event source, each   *)
(* the only goroutine that calls Connect, Next and Close of its source:    *)
(* StartSSE, GetEventsSSE and GetLceSSE (one loop, named for the last),    *)
(* GetSSEByUri and GetInventoryByUri.  "library" is a user of the library  *)
(* as its comment describes one: Next in a loop, Close from elsewhere.     *)
(*                                                                         *)
(* A redfishread system uses StartSSE alone (DeviceStream); the others are *)
(* part of the client library.  The channel's reader is external.          *)
(***************************************************************************)
EXTENDS EventSource

CONSTANT Loops   \* the loops checked, a subset of AllLoops

AllLoops == {"library", "StartSSE", "GetLceSSE", "GetSSEByUri", "GetInventoryByUri"}

ASSUME LoopsConstants == Loops \subseteq AllLoops

VARIABLES
  loop,       \* which loop runs
  at,         \* "connect", "select", "next", "send", "sendError", "done"
  cancelled   \* the context is done

loopVars == <<loop, at, cancelled>>
allVars == <<vars, loopVars>>

LoopsInit ==
  /\ Init
  /\ loop \in Loops /\ at = "connect" /\ cancelled = FALSE

WatchesContext == loop \in {"StartSSE", "GetLceSSE"}
Stay == UNCHANGED loopVars
Go(l) == at' = l /\ UNCHANGED <<loop, cancelled>>

\* sseConfig.Connect() and its error return.
LoopConnect ==
  /\ at = "connect"
  /\ \/ Connect /\ Stay
     \/ pc = "idle" /\ Go("select") /\ UNCHANGED vars
     \/ pc = "failed" /\ UNCHANGED vars
        /\ Go(IF loop = "GetSSEByUri" THEN "sendError" ELSE "done")

CtxCancel ==
  /\ WatchesContext /\ ~cancelled
  /\ cancelled' = TRUE /\ UNCHANGED <<loop, at>> /\ UNCHANGED vars

\* Mutation: the loop of a cancelled context ends without Close.
StopOnContextOpen ==
  /\ at = "select" /\ pc = "idle" /\ WatchesContext /\ cancelled
  /\ UNCHANGED vars /\ Go("done")

\* case <-Ctx.Done()
StopOnContext ==
  /\ at = "select" /\ pc = "idle" /\ WatchesContext /\ cancelled
  /\ Close /\ Go("done")

\* sseSource.Next(), by the library's user also from a source closed elsewhere.
CallNext ==
  /\ at = "select" /\ ~(WatchesContext /\ cancelled)
  /\ NextBegins
  /\ IF loop = "library" THEN Stay ELSE Go("next")

\* Unmarshal and the channel; a message that does not parse is skipped.
HandleEvent ==
  /\ at = "next" /\ pc = "idle" /\ result = "event"
  /\ \/ loop = "GetInventoryByUri" /\ Go("done")
     \/ loop # "GetInventoryByUri" /\ Go("select")
     \/ loop # "GetInventoryByUri" /\ Go("send")
  /\ UNCHANGED vars

SendParsed == at = "send" /\ Go("select") /\ UNCHANGED vars

\* The break of GetLceSSE leaves the select, not the loop; GetInventoryByUri
\* goes on with the empty event, which does not parse.
HandleError ==
  /\ at = "next" /\ pc = "idle" /\ result = "error"
  /\ Go(CASE loop = "GetLceSSE" -> "select"
          [] loop = "GetInventoryByUri" -> "done"
          [] OTHER -> "sendError")
  /\ UNCHANGED vars

\* The error event, after which only StartSSE closes its source.
SendErrorEvent ==
  /\ at = "sendError"
  /\ IF loop = "StartSSE" THEN Close ELSE UNCHANGED vars
  /\ Go("done")

UserCloses == loop = "library" /\ Close /\ Stay

Library == (Establish \/ Local \/ Reading) /\ Stay

LoopsNext ==
  \/ LoopConnect \/ CtxCancel \/ StopOnContext \/ CallNext \/ HandleEvent
  \/ SendParsed \/ HandleError \/ SendErrorEvent \/ UserCloses \/ Library

LoopsSafety == LoopsInit /\ [][LoopsNext]_allVars

LoopsSpec == LoopsSafety /\ WF_vars(Local /\ Stay) /\ WF_vars(Establish /\ Stay)

-----------------------------------------------------------------------------
LoopsTypeOK ==
  /\ TypeOK
  /\ loop \in AllLoops /\ cancelled \in BOOLEAN
  /\ at \in {"connect", "select", "next", "send", "sendError", "done"}

\* A loop that has ended holds no open connection, whether it ended by its
\* context, by an error or by the end of the stream.  GetInventoryByUri is the
\* exception: it takes one event and never closes its source.
EndedLoopReleases ==
  at = "done" /\ loop # "GetInventoryByUri" => \A c \in Conns : conns[c] # "open"

=============================================================================
