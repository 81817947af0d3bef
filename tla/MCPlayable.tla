----------------------------- MODULE MCPlayable -----------------------------
(* Playable on a recording of a few frames with a hole in it. *)
EXTENDS Playable

MCFrames == {0, 1, 3}
Named(name) == [name |-> name]
StepBy(k) == [name |-> "step", n |-> k]
SeekTo(at, until, play) == [name |-> "seek", at |-> at, until |-> until, play |-> play]

MCCommands == {Named("play"), Named("pause"), Named("speed"), StepBy(2), StepBy(0), StepBy(-1),
               SeekTo(-1, NoTime, FALSE), SeekTo(2, NoTime, TRUE), SeekTo(1, 2, TRUE), SeekTo(4, NoTime, FALSE)}
=============================================================================
