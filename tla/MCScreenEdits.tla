---------------------------- MODULE MCScreenEdits ----------------------------
(* Two climate switches of one page, the charge limit and a timer.          *)
EXTENDS ScreenEdits, TLC

CONSTANTS e1, e2, r1, unlock, window, target, timer, climate, settings, timerPage, lo, hi

MCPageOf == (unlock :> climate) @@ (window :> climate) @@ (target :> settings)
            @@ (timer :> timerPage)

\* Two calls for any two fields, one to each value; the same field may be asked
\* for both. The two climate switches are alike, and so are the two calls.
MCPairs == {<<unlock, window>>, <<unlock, target>>, <<unlock, timer>>, <<target, timer>>}
           \cup {<<f, f>> : f \in {unlock, target, timer}}
MCPlans == {(e1 :> <<p[1], lo>>) @@ (e2 :> <<p[2], hi>>) : p \in MCPairs}
=============================================================================
