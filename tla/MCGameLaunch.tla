---------------------------- MODULE MCGameLaunch -----------------------------
(* Three saved profiles: one of the desktop, and one of each game.           *)
EXTENDS GameLaunch, TLC

CONSTANTS desk, p1, p2, w1, g1, g2, app1

MCProfiles == {desk, p1, p2}
MCWrappers == {w1}
MCProcesses == {w1, app1}
MCGames == {g1, g2}
MCRef == [w \in MCWrappers |-> p1]
\* A launch that asks for the profile a first start makes.
MCRefDefaults == [w \in MCWrappers |-> Defaults]
MCRule == (g1 :> p1) @@ (g2 :> p2)

\* Games come and go while the watcher is on, without a launch or a reset.  There are
\* two of the other events, one of them when a signal comes too.  A launch meets the
\* watcher turned off and is followed to its end; one that has warned, or whose switch
\* is late or failed, and any late writing of the names, are not followed into a second
\* of the others.
Late(w) == pc[w] \in {"ready", "command", "wait"} /\ (call[w].at # "done" \/ call[w].code # "ok")
Launched == \E w \in Wrappers : pc[w] # "start"
Watched == watch.on \/ content[0].on
Played == games # {} \/ spent.games > 0
Bound ==
    /\ Played => Watched /\ spent.resets = 0
    /\ Launched => ~Watched /\ ~Played
    /\ spent.opens + spent.resets = 2 =>
         \A w \in Wrappers : seen.quiet[w] /\ ~Late(w) /\ (Launched => placed = place \/ placed["state"] = 0)
    /\ spent.resets + spent.user + spent.opens <=
         (IF \E w \in Wrappers : signalled[w] THEN 1 ELSE 2)
    /\ \A w \in Wrappers : pc[w] # "ended"
=============================================================================
