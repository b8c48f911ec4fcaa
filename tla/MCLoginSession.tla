--------------------------- MODULE MCLoginSession ---------------------------
(* Two users behind one address, for TLC. *)
EXTENDS LoginSession
CONSTANTS alice, bob, x, y, n1, n2

\* States that break one of these are checked and not continued.
\* A doubt never goes away and every property excuses it, but for WaitHasAJob,
\* which a theorem states with all the doubts
Undoubted == doubt = {}

\* The first event is a login of alice
AliceFirst == events = 1 => uOTPExpire[alice] = "future" /\ uOTPExpire[bob] = "0" /\ page[bob].at = "none"

\* Nobody is refused before the first login
KnownOnly == \A u \in Users : page[u].at = "check" => cIPMask[u] # NoHost
=============================================================================
