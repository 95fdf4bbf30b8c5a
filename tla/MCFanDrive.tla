----------------------------- MODULE MCFanDrive -----------------------------
EXTENDS FanDrive

Percent(n) == 510 * n

Plain == [up |-> None, down |-> None, start |-> None, stop |-> None,
          offset |-> 0, minimum |-> 0]
Lifted == [Plain EXCEPT !.offset = Percent(10), !.minimum = Percent(30),
                        !.stop = Percent(10), !.start = Percent(50),
                        !.down = Percent(20)]
Slow  == [Plain EXCEPT !.up = Percent(20), !.down = Percent(20)]
Damped(downward) ==
  [fn |-> "standard", degrees |-> 3, delay |-> 3, downward |-> downward]
Off == [fn |-> "standard", degrees |-> 0, delay |-> 0, downward |-> TRUE]
Step == [kind |-> "trigger", threshold |-> 6, before |-> Percent(20), after |-> Percent(100)]
Averaged(whole) == [fn |-> "ema", whole |-> whole]
Falling == [kind |-> "linear", start |-> <<8, Percent(20)>>,
                               end |-> <<4, Percent(100)>>]
Rising == [kind |-> "graph", points |->
             << <<9, Percent(100)>>, <<3, Percent(20)>>, <<5, Percent(40)>>,
                <<6, Percent(60)>> >>]
Curve(kind, functions) ==
  [kind |-> kind, functions |-> functions, hysteresis |-> Damped(TRUE)]

(* Stops at 26 and restarts at 64; its lowest samples are flat.            *)
CaseFan == [max |-> 1800, stop |-> 26, start |-> 64, points |->
             << <<255, 1800>>, <<153, 1300>>, <<102, 900>>, <<51, 400>>,
                <<38, 200>>, <<26, 0>>, <<13, 0>>, <<0, 0>> >>]
(* Never stops, and dips.                                                  *)
Pump == [max |-> 2240, stop |-> None, start |-> None, points |->
          << <<255, 2240>>, <<204, 2250>>, <<102, 1860>>, <<51, 1500>>,
             <<26, 1110>>, <<0, 1117>> >>]

Blank0 == [defs |-> {}, tunings |-> {Plain}, cals |-> {None}, targets |-> {},
           readings |-> {5}, stalls |-> {FALSE}, ladder |-> {}, fast |-> FALSE]

(* Hysteresis as an old config has it, and of both directions behind a     *)
(* function that does nothing; edited back and forth, in calibrations too. *)
HeldSite == [Blank0 EXCEPT !.readings = {3, 5, 6, 9}, !.ladder = {0},
  !.defs = {Curve(Rising, <<>>), Curve(Rising, <<Damped(FALSE)>>)}]
ChainSite == [Blank0 EXCEPT !.readings = {3, 6, 9},
  !.defs = {Curve(Rising, <<Off, Damped(TRUE), Damped(FALSE)>>),
            Curve(Falling, <<Averaged(TRUE), Damped(FALSE)>>)}]
(* Smoothing before hysteresis, on a fan that stalls.                      *)
SmoothSite == [Blank0 EXCEPT !.readings = {3, 9}, !.stalls = {TRUE},
  !.defs = {Curve(Step, <<Averaged(FALSE), Damped(TRUE)>>)}, !.cals = {CaseFan}]
(* Limited steps under a curve.                                            *)
RampSite == [Blank0 EXCEPT !.readings = {3, 9}, !.tunings = {Slow},
  !.defs = {Curve(Rising, <<Identity>>)}]
(* By hand: calibrated fans, tuned, requests following each other at once. *)
HandSite == [Blank0 EXCEPT !.readings = {}, !.defs = {Curve(Rising, <<>>)},
  !.tunings = {Plain, Lifted}, !.cals = {CaseFan}, !.fast = TRUE,
  !.targets = {0, 255}, !.stalls = BOOLEAN]
(* The same fan calibrated, with what was shown before restored.           *)
BackSite == [HandSite EXCEPT !.tunings = {Lifted}, !.targets = {0},
  !.stalls = {FALSE}, !.ladder = {0}]
StallSite == [BackSite EXCEPT !.stalls = {TRUE}, !.fast = FALSE]
PumpSite == [Blank0 EXCEPT !.readings = {}, !.defs = {Curve(Rising, <<>>)},
  !.tunings = {Slow}, !.cals = {Pump}, !.targets = {0, 128, 255},
  !.ladder = {13}]

TheSites == [held |-> HeldSite, chain |-> ChainSite, smooth |-> SmoothSite,
             ramp |-> RampSite, hand |-> HandSite, back |-> BackSite,
             stall |-> StallSite, pump |-> PumpSite]
SteadySites == [steady |-> [RampSite EXCEPT !.readings = {3, 6, 9}]]
TheWaits == {1, 2}
=============================================================================
