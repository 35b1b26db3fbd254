------------------------- MODULE MCDictionaryServer -------------------------
(***************************************************************************)
(* DictionaryServer for TLC: two clients and one device.                    *)
(***************************************************************************)
EXTENDS DictionaryServer

heard == [s \in Sessions |-> IF s = "a" THEN StateKeys ELSE StateKeys \cup SetKeys]

both(first, second) == [s \in Sessions |-> IF s = "a" THEN first ELSE second]

\* What the clients do: open and close the device and set its output; follow it
\* and switch the reports off and on; follow it and flush.
opening   == both({"open", "close", "put"}, {"open", "close", "remove"})
following == both({"open", "put"}, {"listen", "ignore", "report", "quiet"})
flushing  == both({"open", "put"}, {"listen", "report", "flush"})
scripts == {opening, following, flushing}
\* The second one removes the device's keys, its own key, or all of these with
\* one pattern.
ownKeys(s) == {ClientKey(s, d) : d \in Devices}
removed == [s \in Sessions |-> {SetKeys \cup StateKeys, ownKeys(s),
                               ownKeys(s) \cup SetKeys \cup StateKeys}]
=============================================================================
