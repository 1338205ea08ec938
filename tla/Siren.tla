------------------------------- MODULE Siren -------------------------------
(* The synthesizer of the emergency siren: EmergencySirenSynthesizer in       *)
(* lib/utils/audio.ts, one object per tab.  play returns at once and may wait  *)
(* for the browser to resume its audio context; stop silences 80 ms later, in *)
(* a timer nothing cancels; an interval started by play ends the sound after  *)
(* its duration.  Calls of stop made by one handler end in one timer here.    *)
EXTENDS Naturals

CONSTANT MaxTimers      \* stop timers that run at once

VARIABLE siren

ASSUME MaxTimersAssumption == MaxTimers \in Nat \ {0}

SirenRecord ==
    [ctx : {"none", "suspended", "running"},  \* audioCtx and its state
     waiting : 0..2,                          \* calls of play that wait for resume()
     osc : BOOLEAN,                           \* this.oscillator sounds
     lostOsc : BOOLEAN,                       \* an oscillator no field names sounds
     playing : BOOLEAN,                       \* isPlaying
     ticking : BOOLEAN,                       \* this.intervalId
     lostTick : BOOLEAN,                      \* an interval no field names
     timers : 0..MaxTimers]                   \* stop timers that run

NewSiren ==
    [ctx |-> "none", waiting |-> 0, osc |-> FALSE, lostOsc |-> FALSE,
     playing |-> FALSE, ticking |-> FALSE, lostTick |-> FALSE, timers |-> 0]

Sounding == siren.osc \/ siren.lostOsc

\* Mutant of Stopped: the sound goes with a timer only when an interval named it.
StoppedWithoutTimer(s) == [s EXCEPT !.ticking = FALSE]

\* What play does once the context runs: the fields name the new oscillator and
\* interval, and lose those they named.
Started(s) ==
    [s EXCEPT !.ctx = "running", !.osc = TRUE, !.lostOsc = @ \/ s.osc,
              !.playing = TRUE, !.ticking = TRUE, !.lostTick = @ \/ s.ticking]

\* play: nothing while isPlaying; a context made without a gesture of the user
\* is suspended, and the call waits.
Played(s) ==
    LET wait == [s EXCEPT !.ctx = "suspended",
                          !.waiting = IF @ < 2 THEN @ + 1 ELSE @]
    IN  CASE s.playing -> {s}
          [] ~s.playing /\ s.ctx = "none" -> {Started(s), wait}
          [] ~s.playing /\ s.ctx = "suspended" -> {wait}
          [] OTHER -> {Started(s)}

\* stop: the interval ends now, the sound with the timer.
Stopped(s) == [s EXCEPT !.ticking = FALSE, !.timers = @ + 1]

CanStop == siren.timers < MaxTimers

\* resume() resolves: every call of play that waited goes on, without looking
\* at isPlaying or at the calls of stop made meanwhile.
Resumed ==
    /\ siren.waiting > 0
    /\ siren' = [Started(siren) EXCEPT
                    !.waiting = 0,
                    !.lostOsc = @ \/ siren.waiting > 1,
                    !.lostTick = @ \/ siren.waiting > 1]

\* resume() is refused by the browser's audio policy.
ResumeRefused ==
    /\ siren.waiting > 0
    /\ siren' = [siren EXCEPT !.waiting = 0, !.playing = FALSE]

\* The timer of a stop: it silences whatever this.oscillator is by now.
StopTimer ==
    /\ siren.timers > 0
    /\ siren' = [siren EXCEPT !.timers = @ - 1, !.osc = FALSE, !.playing = FALSE]

\* An interval finds the duration over, or nothing playing, and stops; between,
\* it changes the tone.
Tick ==
    /\ siren.ticking \/ siren.lostTick
    /\ CanStop
    /\ siren' = Stopped(siren)

SirenStep == Resumed \/ ResumeRefused \/ StopTimer \/ Tick
=============================================================================
