--------------------------- MODULE MessageChannel ---------------------------
(***************************************************************************)
(* What read_message is to its callers (wire.rs:102-109): the messages     *)
(* that were written, whole, in order, each once; then None or an error,   *)
(* and after that nothing.                                                 *)
(***************************************************************************)
EXTENDS Naturals, Sequences

CONSTANTS Sendable,    \* what may be written
          Content(_)   \* what the reader is to get of it; nothing, if unsound

VARIABLES written,   \* the messages written, in order
          got,       \* those read_message returned, in order
          outcome    \* "reading", "none" or "error"

channelVars == <<written, got, outcome>>

ChannelInit == written = <<>> /\ got = <<>> /\ outcome = "reading"

ChannelWrite ==
  /\ \E m \in Sendable : written' = Append(written, m)
  /\ UNCHANGED <<got, outcome>>

\* The next message, if it is one the reader may take.
ChannelDeliver ==
  /\ outcome = "reading" /\ Len(got) < Len(written)
  /\ \E c \in Content(written[Len(got) + 1]) : got' = Append(got, c)
  /\ UNCHANGED <<written, outcome>>

ChannelEnd ==
  /\ outcome = "reading"
  /\ outcome' \in {"none", "error"}
  /\ UNCHANGED <<written, got>>

ChannelNext == ChannelWrite \/ ChannelDeliver \/ ChannelEnd

ChannelSpec == ChannelInit /\ [][ChannelNext]_channelVars
=============================================================================
