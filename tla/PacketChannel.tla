--------------------------- MODULE PacketChannel ---------------------------
(***************************************************************************)
(* What the output path of a Phidget handle promises its user, with no      *)
(* threads, locks or events: a channel to the device that holds at most two *)
(* packets (the 1-packet queue and the one being transferred), delivers     *)
(* them in order and at most once, and may lose only the oldest.            *)
(***************************************************************************)
EXTENDS Integers, Sequences

VARIABLES channel,    \* the packets accepted and not yet delivered or lost
          delivered   \* the packets the device has received

cvars == <<channel, delivered>>

ChannelInit == channel = <<>> /\ delivered = <<>>

\* p is newer than every packet of the sequence s.
Newer(p, s) == \A i \in 1 .. Len(s) : s[i] < p

Elements(s) == {s[i] : i \in 1 .. Len(s)}

\* Accepts a packet newer than all it has been given before.
Accept ==
  /\ Len(channel) < 2
  /\ \E p \in Elements(channel') :
       /\ Newer(p, channel) /\ Newer(p, delivered)
       /\ channel' = Append(channel, p)
  /\ UNCHANGED delivered

Deliver ==
  /\ channel # <<>>
  /\ delivered' = Append(delivered, Head(channel))
  /\ channel' = Tail(channel)

Lose ==
  /\ channel # <<>>
  /\ channel' = Tail(channel)
  /\ UNCHANGED delivered

ChannelNext == Accept \/ Deliver \/ Lose

ChannelSpec == ChannelInit /\ [][ChannelNext]_cvars
=============================================================================
