----------------------------- MODULE MediaWindow -----------------------------
(***************************************************************************)
(* What an HLS media playlist promises to the clients that reload it: its  *)
(* entries are numbered, an entry keeps its media sequence number and its  *)
(* content for as long as it is listed, entries are added at the end and   *)
(* leave from the front, one at a time.                                    *)
(***************************************************************************)
EXTENDS Integers

CONSTANT Entry      \* what an entry can be

VARIABLES
    lo,     \* EXT-X-MEDIA-SEQUENCE, the number of the first entry
    hi,     \* one more than the number of the last entry
    entry   \* the entries, by media sequence number

windowVars == <<lo, hi, entry>>

WindowInit ==
    /\ lo = 0 /\ hi = 0
    /\ entry = [n \in {} |-> n]

\* A reload shows new entries at the end, at most one less at the front.
Publish ==
    /\ lo' \in {lo, lo + 1}
    /\ hi' \in Int /\ hi' > hi
    /\ DOMAIN entry' = lo' .. hi' - 1
    /\ \A n \in lo' .. hi - 1 : entry'[n] = entry[n]
    /\ \A n \in hi .. hi' - 1 : n >= lo' => entry'[n] \in Entry

WindowSpec == WindowInit /\ [][Publish]_windowVars
=============================================================================
