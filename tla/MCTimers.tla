------------------------------ MODULE MCTimers ------------------------------
(* Lines and frames of a few cycles and a counter up to two.                *)
EXTENDS Timers

\* init, with a line of three cycles of which the last is blanked and a frame
\* of five cycles.
MCRegular ==
    <<Task("HBlankStart", 2, 3), Task("HBlankEnd", 3, 3),
      Task("VBlankStart", 3, 5), Task("VBlankEnd", 5, 5)>>

Count == [NoMode EXCEPT !.irq_target = TRUE]

\* One shot at the target: counting to the target and toggling, or through it
\* after the next blank; both interrupts, repeated, counting dots outside the
\* blanks.
MCModes == {
    [Count EXCEPT !.reset_to_target = TRUE, !.irq_toggle = TRUE],
    [Count EXCEPT !.sync_enabled = TRUE, !.sync_mode = 3],
    [Count EXCEPT !.sync_enabled = TRUE, !.clock_src = 1,
                  !.irq_end = TRUE, !.irq_repeat = TRUE] }
=============================================================================
