---------------------------- MODULE MCShortcutAll ----------------------------
(***************************************************************************)
(* MCShortcut with widgets a, b and themes t1, t2, checked as two parts   *)
(* chosen once in the initial state (the state space is their sum, not    *)
(* their product):                                                         *)
(*   "registry": the manager stays in the default theme t1 and both       *)
(*               widgets take part: registration, re-parenting, cycles;   *)
(*   "themes":   the application may switch to t2, and widget b is never *)
(*               touched, so only a, the window and the two themes vary.  *)
(***************************************************************************)
EXTENDS MCShortcut

VARIABLE part

allVars == <<vars, part>>

\* Widget b keeps its initial, detached state and no widget or window
\* comes to refer to it.
BUntouched ==
    /\ parent'[b] = parent[b] /\ visible'[b] = visible[b]
    /\ sensitive'[b] = sensitive[b] /\ alive'[b] = alive[b]
    /\ b \notin ctrl' /\ command'[b] = command[b]
    /\ \A w \in Widgets : parent'[w] # b
    /\ \A x \in Windows : focus'[x] # b

PartInit == part \in {"registry", "themes"} /\ Init

PartNext ==
    /\ Next /\ UNCHANGED part
    /\ part = "registry" => theme' \in {NoTheme, t1}
    /\ part = "themes" => BUntouched

PartSpec == PartInit /\ [][PartNext]_allVars

=============================================================================
