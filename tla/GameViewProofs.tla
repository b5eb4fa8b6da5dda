--------------------------- MODULE GameViewProofs ---------------------------
(***************************************************************************)
(* The game view: the GBA game that it shows, and the on-screen pad.       *)
(***************************************************************************)
EXTENDS GbaSession, TouchControls, FiniteSetTheorems, TLAPS

----------------------------------------------------------------------------
(* GBA sessions of a user who lets a boot end, for any number of games,    *)
(* failed boots, pauses, changes of speed and quits.                       *)

\* A game that has not been revealed yet.
Unborn(g) == boot[g] = "none" /\ engine[g] = "off" /\ ~module[g] /\ ~paused[g] /\ rate[g] = 1

\* A core without a view: its boot is over, so that it stays what it is.
Over(g) == Ended(g) /\ ~Plays(g)

\* The core of the view.  Until its boot has ended nothing has been shown or
\* asked; then its flag and its engine say the same as the view, unless the
\* boot failed.
InView(g) ==
    /\ boot[g] # "none"
    /\ boot[g] = "module" => engine[g] = "off" /\ ~module[g]
    /\ boot[g] = "files" => engine[g] = "idle" /\ module[g]
    /\ boot[g] \in {"module", "files"} =>
          ~paused[g] /\ rate[g] = 1 /\ ~shown.paused /\ ~shown.ff
    /\ boot[g] = "done" =>
         /\ module[g] /\ Plays(g)
         /\ paused[g] = shown.paused
         /\ engine[g] = IF shown.paused THEN "still" ELSE "runs"
         /\ rate[g] = IF shown.ff THEN 2 ELSE 1
    /\ boot[g] = "failed" => ~Plays(g)

\* Each game ever started is one of the three.
Cores ==
    /\ \A g \in Games : g > games => Unborn(g)
    /\ \A g \in Games : g <= games /\ g # current => Over(g)
    /\ current # 0 => InView(current)

\* The inductive invariant.
GbaInv ==
    /\ TypeOK
    /\ reading => current = 0
    /\ patient => Cores

EngineStates == {"off", "idle", "stalled", "runs", "still"}

\* A pause and what ends it.
LEMMA EngineMoves ==
    ASSUME NEW e \in EngineStates
    PROVE  /\ PauseEngine(e) \in EngineStates /\ ResumeEngine(e) \in EngineStates
           /\ PauseEngine("runs") = "still" /\ ResumeEngine("still") = "runs"
           /\ PauseEngine(e) \in {"runs", "still"} <=> e \in {"runs", "still"}
           /\ ResumeEngine(e) \in {"runs", "still"} <=> e \in {"runs", "still"}
<1>1. PauseEngine("runs") = "still" /\ ResumeEngine("still") = "runs"
  BY DEF PauseEngine, ResumeEngine
<1>2. PauseEngine("idle") = "stalled" /\ ResumeEngine("stalled") = "idle"
  BY DEF PauseEngine, ResumeEngine
<1>3. \A x \in {"off", "stalled", "still"} : PauseEngine(x) = x
  BY DEF PauseEngine
<1>4. \A x \in {"off", "idle", "runs"} : ResumeEngine(x) = x
  BY DEF ResumeEngine
<1> QED BY <1>1, <1>2, <1>3, <1>4 DEF EngineStates

LEMMA GbaTypes == ASSUME TypeOK, [Next]_vars PROVE TypeOK'
<1> USE DEF TypeOK
<1>1. CASE Play \/ RomUnreadable
  BY <1>1 DEF Play, RomUnreadable, core, mgba
<1>2. CASE Reveal
  <2>1. games + 1 \in Games /\ games' \in 0..MaxGames /\ current' \in 0..games'
    BY <1>2, MaxGamesAssumption DEF Reveal, Games
  <2> QED BY <1>2, <2>1 DEF Reveal, Fresh, States, mgba
<1>3. ASSUME NEW g \in Games, BootStep(g) PROVE TypeOK'
  BY <1>3, ZenonT(60) DEF BootStep, ModuleReady, ModuleFails, FilesReady, FilesFail, Reject, States, mgba
<1>4. CASE Pause
  <2>1. current # 0 => engine[current] \in EngineStates /\ current \in Games
    BY MaxGamesAssumption DEF EngineStates, Games
  <2>2. engine' \in [Games -> EngineStates]
    BY <1>4, <2>1, EngineMoves DEF Pause, CanAct, EngineStates
  <2> QED BY <1>4, <2>2 DEF Pause, States, EngineStates
<1>5. CASE Resume
  <2>1. current # 0 => engine[current] \in EngineStates /\ current \in Games
    BY MaxGamesAssumption DEF EngineStates, Games
  <2>2. engine' \in [Games -> EngineStates]
    BY <1>5, <2>1, EngineMoves DEF Resume, CanAct, EngineStates
  <2> QED BY <1>5, <2>2 DEF Resume, States, EngineStates
<1>6. CASE FastForward
  BY <1>6 DEF FastForward, SetRate, States, core
<1>7. CASE Quit
  <2>1. engine' \in [Games -> EngineStates]
    BY <1>7 DEF Quit, EngineStates
  <2> QED BY <1>7, <2>1 DEF Quit, EngineStates
<1>8. CASE UNCHANGED vars
  BY <1>8 DEF vars, core, mgba
<1> QED BY <1>1, <1>2, <1>3, <1>4, <1>5, <1>6, <1>7, <1>8 DEF Next

LEMMA CurrentIsAGame == ASSUME TypeOK, current # 0 PROVE current \in Games /\ current <= games
BY MaxGamesAssumption DEF TypeOK, Games

\* A step of a boot: its core is the one of the view.
LEMMA BootKeepsCores ==
    ASSUME TypeOK, Cores, NEW g \in Games, BootStep(g) PROVE Cores'
<1>1. g = current /\ current # 0
  <2>1. boot[g] \in {"module", "files"}
    BY DEF BootStep, ModuleReady, ModuleFails, FilesReady, FilesFail
  <2>2. g > games \/ g <= games
    BY DEF TypeOK, Games
  <2> QED BY <2>1, <2>2 DEF Cores, Unborn, Over, Ended, Games
<1>2. UNCHANGED <<games, current>> /\ \A o \in Games \ {g} :
        /\ boot'[o] = boot[o] /\ engine'[o] = engine[o] /\ module'[o] = module[o]
        /\ paused'[o] = paused[o] /\ rate'[o] = rate[o]
  BY DEF BootStep, ModuleReady, ModuleFails, FilesReady, FilesFail, Reject, mgba, TypeOK
<1>3. InView(current)'
  <2>1. InView(g)
    BY <1>1 DEF Cores
  <2>2. CASE ModuleReady(g)
    BY <1>1, <2>1, <2>2 DEF ModuleReady, InView, Plays, TypeOK
  <2>3. CASE ModuleFails(g)
    BY <1>1, <2>1, <2>3 DEF ModuleFails, Reject, InView, Plays, TypeOK, mgba
  <2>4. CASE FilesReady(g)
    <3>1. boot'[g] = "done" /\ module'[g] /\ paused'[g] = FALSE
      BY <2>1, <2>4 DEF FilesReady, InView, TypeOK
    <3>3. shown'.paused = FALSE /\ shown'.ff = FALSE
      BY <2>1, <2>4 DEF FilesReady, InView, TypeOK, States
    <3>2. engine'[g] = "runs" /\ rate'[g] = 1
      BY <2>1, <2>4 DEF FilesReady, InView, TypeOK
    <3> QED BY <1>1, <1>2, <3>1, <3>2, <3>3 DEF InView, Plays
  <2>5. CASE FilesFail(g)
    BY <1>1, <2>1, <2>5 DEF FilesFail, Reject, InView, Plays, TypeOK, mgba
  <2> QED BY <1>1, <2>2, <2>3, <2>4, <2>5 DEF BootStep
<1>4. g <= games
  BY <1>1, CurrentIsAGame
<1>5. \A o \in Games : o > games' => Unborn(o)'
  BY <1>2, <1>4 DEF Cores, Unborn, Games, TypeOK
<1>6. \A o \in Games : o <= games' /\ o # current' => Over(o)'
  BY <1>1, <1>2 DEF Cores, Over, Ended, Plays
<1> QED BY <1>3, <1>5, <1>6 DEF Cores

\* What the buttons of the view do to its core, whose boot has ended.
LEMMA ButtonKeepsCores ==
    ASSUME TypeOK, Cores, patient, Pause \/ Resume \/ FastForward PROVE Cores'
<1>1. current # 0 /\ Ended(current) /\ InView(current)
  BY DEF Pause, Resume, FastForward, CanAct, Cores
<1>2. current \in Games /\ current <= games
  BY <1>1, CurrentIsAGame
<1>3. UNCHANGED <<games, current, boot, module>> /\ \A o \in Games \ {current} :
        engine'[o] = engine[o] /\ paused'[o] = paused[o] /\ rate'[o] = rate[o]
  BY <1>2 DEF Pause, Resume, FastForward, SetRate, core, TypeOK
<1>4. InView(current)'
  <2>1. boot[current] \in {"done", "failed"} /\ boot' = boot /\ module' = module
    BY <1>1, <1>3 DEF Ended
  <2>2. CASE Pause
    <3>1. shown'.paused = TRUE /\ shown'.ff = shown.ff /\ ~shown.paused /\ rate' = rate
      BY <2>2 DEF Pause, TypeOK, States
    <3>2. CASE boot[current] = "done"
      <4>0. module[current] /\ ~paused[current] /\ engine[current] = "runs"
        BY <1>1, <3>1, <3>2 DEF InView
      <4>1. engine'[current] = "still" /\ paused'[current] = TRUE
        <5>1. PauseEngine("runs") = "still"
          BY EngineMoves DEF EngineStates
        <5>2. engine' = [engine EXCEPT ![current] = PauseEngine("runs")]
          BY <2>2, <4>0 DEF Pause
        <5>3. paused' = [paused EXCEPT ![current] = TRUE]
          BY <2>2, <4>0 DEF Pause
        <5> QED BY <1>2, <5>1, <5>2, <5>3 DEF TypeOK
      <4> QED BY <1>1, <1>3, <2>1, <3>1, <3>2, <4>1 DEF InView, Plays, TypeOK
    <3>3. CASE boot[current] = "failed"
      <4>1. engine'[current] \notin {"runs", "still"}
        BY <1>1, <1>2, <2>2, <3>3, EngineMoves
           DEF Pause, InView, Plays, TypeOK, EngineStates
      <4> QED BY <1>3, <2>1, <3>3, <4>1 DEF InView, Plays
    <3> QED BY <2>1, <3>2, <3>3
  <2>3. CASE Resume
    <3>1. shown'.paused = FALSE /\ shown'.ff = shown.ff /\ shown.paused /\ rate' = rate
      BY <2>3 DEF Resume, TypeOK, States
    <3>2. CASE boot[current] = "done"
      <4>0. module[current] /\ paused[current] /\ engine[current] = "still"
        BY <1>1, <3>1, <3>2 DEF InView
      <4>1. engine'[current] = "runs" /\ paused'[current] = FALSE
        <5>1. ResumeEngine("still") = "runs"
          BY EngineMoves DEF EngineStates
        <5>2. engine' = [engine EXCEPT ![current] = ResumeEngine("still")]
          BY <2>3, <4>0 DEF Resume
        <5>3. paused' = [paused EXCEPT ![current] = FALSE]
          BY <2>3, <4>0 DEF Resume
        <5> QED BY <1>2, <5>1, <5>2, <5>3 DEF TypeOK
      <4> QED BY <1>1, <1>3, <2>1, <3>1, <3>2, <4>1 DEF InView, Plays, TypeOK
    <3>3. CASE boot[current] = "failed"
      <4>1. engine'[current] \notin {"runs", "still"}
        BY <1>1, <1>2, <2>3, <3>3, EngineMoves
           DEF Resume, InView, Plays, TypeOK, EngineStates
      <4> QED BY <1>3, <2>1, <3>3, <4>1 DEF InView, Plays
    <3> QED BY <2>1, <3>2, <3>3
  <2>4. CASE FastForward
    BY <1>1, <1>2, <1>3, <2>1, <2>4
       DEF FastForward, SetRate, InView, Plays, TypeOK, States, core
  <2> QED BY <2>2, <2>3, <2>4
<1>5. \A o \in Games : o > games' => Unborn(o)'
  BY <1>2, <1>3 DEF Cores, Unborn, Games, TypeOK
<1>6. \A o \in Games : o <= games' /\ o # current' => Over(o)'
  BY <1>3 DEF Cores, Over, Ended, Plays
<1> QED BY <1>4, <1>5, <1>6 DEF Cores

LEMMA RevealKeepsCores ==
    ASSUME TypeOK, Cores, reading => current = 0, Reveal PROVE Cores'
<1>1. games' = games + 1 /\ current' = games' /\ current = 0 /\ games' \in Games
  BY MaxGamesAssumption DEF Reveal, TypeOK, Games
<1>2. UNCHANGED <<module, paused, engine, rate>> /\ shown' = Fresh
      /\ boot' = [boot EXCEPT ![games'] = "module"]
  BY DEF Reveal, mgba
<1>3. Unborn(games')
  BY <1>1 DEF Cores, TypeOK
<1>4. InView(current)'
  BY <1>1, <1>2, <1>3 DEF Unborn, InView, Fresh, TypeOK
<1>5. \A o \in Games : o > games' => Unborn(o)'
  BY <1>1, <1>2 DEF Cores, Unborn, TypeOK, Games
<1>6. \A o \in Games : o <= games' /\ o # current' => Over(o)'
  BY <1>1, <1>2 DEF Cores, Over, Ended, Plays, TypeOK, Games
<1> QED BY <1>4, <1>5, <1>6 DEF Cores

\* destroy leaves no game behind, whether the boot has failed or not.
LEMMA QuitKeepsCores ==
    ASSUME TypeOK, Cores, patient, Quit PROVE Cores'
<1>1. current # 0 /\ Ended(current) /\ InView(current) /\ current' = 0
  BY DEF Quit, CanAct, Cores
<1>2. current \in Games /\ current <= games
  BY <1>1, CurrentIsAGame
<1>3. UNCHANGED <<games, boot, rate>> /\ \A o \in Games \ {current} :
        engine'[o] = engine[o] /\ module'[o] = module[o] /\ paused'[o] = paused[o]
  BY <1>2 DEF Quit, TypeOK
<1>4. \A o \in Games : o = current => Over(o)'
  <2> SUFFICES ASSUME NEW o \in Games, o = current PROVE Over(o)'
    OBVIOUS
  <2>1. Ended(o)'
    BY <1>1, <1>3 DEF Ended
  <2>2. boot[o] = "done" => module[o]
    BY <1>1 DEF InView
  <2>3. boot[o] = "failed" => ~Plays(o)
    BY <1>1 DEF InView
  <2>4. engine'[o] = IF module[o] /\ Plays(o) THEN "off" ELSE engine[o]
    BY DEF Quit, Plays, TypeOK
  <2> QED BY <1>1, <2>1, <2>2, <2>3, <2>4 DEF Over, Plays, Ended
<1>5. \A o \in Games : o > games' => Unborn(o)'
  BY <1>2, <1>3 DEF Cores, Unborn, Games, TypeOK
<1>6. \A o \in Games : o <= games' => Over(o)'
  BY <1>3, <1>4 DEF Cores, Over, Ended, Plays
<1> QED BY <1>1, <1>5, <1>6 DEF Cores

\* The inductive invariant: whatever was started, failed and quit before, a patient
\* user has one core with a view, which does what the view shows, and no other plays.
THEOREM GbaInvariant == Spec => []GbaInv
<1>1. Init => GbaInv
  <2>1. Init => TypeOK
    <3>1. Fresh \in States
      BY DEF Fresh, States
    <3>2. 0 \in 0..MaxGames /\ 0 \in 0..0
      BY MaxGamesAssumption
    <3> QED BY <3>1, <3>2 DEF Init, TypeOK
  <2>2. Init => Cores
    BY DEF Init, Cores, Unborn, Games
  <2> QED BY <2>1, <2>2 DEF Init, GbaInv
<1>2. GbaInv /\ [Next]_vars => GbaInv'
  <2> SUFFICES ASSUME GbaInv, [Next]_vars PROVE GbaInv'
    OBVIOUS
  <2>1. TypeOK'
    BY GbaTypes DEF GbaInv
  <2>2. (reading => current = 0)'
    BY DEF GbaInv, Next, Play, RomUnreadable, Reveal, BootStep, ModuleReady, ModuleFails,
       FilesReady, FilesFail, Pause, Resume, FastForward, Quit, vars
  <2>3. patient' = patient
    BY DEF Next, Play, RomUnreadable, Reveal, BootStep, ModuleReady, ModuleFails,
       FilesReady, FilesFail, Pause, Resume, FastForward, Quit, vars
  <2>4. ASSUME patient PROVE Cores'
    <3>1. TypeOK /\ Cores /\ (reading => current = 0)
      BY <2>4 DEF GbaInv
    <3>2. CASE Play \/ RomUnreadable \/ UNCHANGED vars
      BY <3>1, <3>2 DEF Play, RomUnreadable, vars, core, mgba, Cores, Unborn, Over, Ended,
         Plays, InView
    <3>3. CASE Reveal
      BY <3>1, <3>3, RevealKeepsCores
    <3>4. ASSUME NEW g \in Games, BootStep(g) PROVE Cores'
      BY <3>1, <3>4, BootKeepsCores
    <3>5. CASE Pause \/ Resume \/ FastForward
      BY <2>4, <3>1, <3>5, ButtonKeepsCores
    <3>6. CASE Quit
      BY <2>4, <3>1, <3>6, QuitKeepsCores
    <3> QED BY <3>2, <3>3, <3>4, <3>5, <3>6 DEF Next
  <2> QED BY <2>1, <2>2, <2>3, <2>4 DEF GbaInv
<1> QED BY <1>1, <1>2, PTL DEF Spec

\* gba.ts destroy: a game that was quit is gone; at most the one in the view plays.
THEOREM GbaOneGame == Spec => []OneGame
<1>1. GbaInv => OneGame
  BY DEF GbaInv, Cores, Unborn, Over, Plays, OneGame, TypeOK, Games
<1> QED BY <1>1, GbaInvariant, PTL

\* emulator.tsx and gba.ts keep a pause and a speed each: they agree after any
\* pauses, changes of speed, failed boots, quits and new games.
THEOREM GbaShownAsItIs == Spec => []ShownAsItIs
<1>1. GbaInv => ShownAsItIs
  BY CurrentIsAGame
     DEF GbaInv, Cores, InView, Plays, ShownAsItIs, PausedIsStill, SpeedIsShown, TypeOK, States
<1> QED BY <1>1, GbaInvariant, PTL

----------------------------------------------------------------------------
(* The on-screen pad counts right for any fingers and buttons, any slides  *)
(* and any lost lifts, if no contact reuses the id of one that is still    *)
(* recorded.                                                               *)

\* The counts say how many fingers there are only if they and what the core
\* was told change together.
TouchInv == TouchTypeOK /\ CountsAreHolders /\ DownWhileHeld

LEMMA HoldersAreFinite ==
    ASSUME TouchTypeOK, NEW b
    PROVE  /\ IsFiniteSet(Holders(b))
           /\ Cardinality(Holders(b)) \in Nat
           /\ Cardinality(Holders(b)) = 0 <=> Holders(b) = {}
<1>1. Holders(b) \subseteq Pointers
  BY DEF TouchTypeOK, Holders
<1>2. IsFiniteSet(Holders(b))
  BY <1>1, PointersAssumption, FS_Subset
<1> QED BY <1>2, FS_CardinalityType, FS_EmptySet

\* A finger p that was nowhere, or on another button, comes down on b.
LEMMA OneMore ==
    ASSUME NEW S, IsFiniteSet(S), NEW p, p \notin S
    PROVE  Cardinality(S \cup {p}) = Cardinality(S) + 1 /\ S \cup {p} # {}
BY FS_AddElement

\* One that was on b leaves it.
LEMMA OneLess ==
    ASSUME NEW S, IsFiniteSet(S), NEW p \in S
    PROVE  /\ Cardinality(S \ {p}) = Cardinality(S) - 1
           /\ Cardinality(S) \in Nat \ {0}
           /\ S \ {p} = {} <=> Cardinality(S) = 1
<1>1. IsFiniteSet(S \ {p}) /\ Cardinality(S \ {p}) = Cardinality(S) - 1
  BY FS_RemoveElement
<1>2. Cardinality(S) \in Nat /\ Cardinality(S \ {p}) \in Nat
  BY <1>1, FS_CardinalityType
<1>3. S \ {p} = {} <=> Cardinality(S \ {p}) = 0
  BY <1>1, FS_EmptySet
<1> QED BY <1>1, <1>2, <1>3

----------------------------------------------------------------------------
(* pressButton and releaseButton on what is right for the holders S of b.  *)

Right(count, down, b, S) ==
    /\ count[b] = Cardinality(S)
    /\ b \in down <=> S # {}

LEMMA PressIsRight ==
    ASSUME NEW count \in [Buttons -> Nat], NEW down, NEW b \in Buttons,
           NEW S, IsFiniteSet(S), NEW p, p \notin S, Right(count, down, b, S)
    PROVE  /\ Press(count, b) \in [Buttons -> Nat]
           /\ Right(Press(count, b), DownAfterPress(down, count, b), b, S \cup {p})
           /\ \A T : \A o \in Buttons \ {b} :
                 Right(count, down, o, T)
                    => Right(Press(count, b), DownAfterPress(down, count, b), o, T)
<1>1. Cardinality(S \cup {p}) = Cardinality(S) + 1 /\ S \cup {p} # {}
  BY OneMore
<1>2. Cardinality(S) = 0 <=> S = {}
  BY FS_EmptySet
<1> QED BY <1>1, <1>2 DEF Right, Press, DownAfterPress

LEMMA ReleaseIsRight ==
    ASSUME NEW count \in [Buttons -> Nat], NEW down, NEW b \in Buttons,
           NEW S, IsFiniteSet(S), NEW p \in S, Right(count, down, b, S)
    PROVE  /\ Release(count, b) \in [Buttons -> Nat]
           /\ Right(Release(count, b), DownAfterRelease(down, count, b), b, S \ {p})
           /\ \A T : \A o \in Buttons \ {b} :
                 Right(count, down, o, T)
                    => Right(Release(count, b), DownAfterRelease(down, count, b), o, T)
<1>1. /\ Cardinality(S \ {p}) = Cardinality(S) - 1
      /\ Cardinality(S) \in Nat \ {0}
      /\ S \ {p} = {} <=> Cardinality(S) = 1
  BY OneLess
<1> QED BY <1>1 DEF Right, Release, DownAfterRelease

----------------------------------------------------------------------------
\* What TouchInv says button by button, for the counts and for what the core
\* was told.
AllRight ==
    /\ pressCount \in [Buttons -> Nat] /\ coreDown \subseteq Buttons
    /\ \A b \in Buttons : Right(pressCount, coreDown, b, Holders(b))

LEMMA InvIsRight == TouchTypeOK => (TouchInv <=> AllRight)
BY DEF TouchInv, TouchTypeOK, CountsAreHolders, DownWhileHeld, Right, AllRight

LEMMA InvIsRightNext == TouchTypeOK' => (TouchInv' <=> AllRight')
BY DEF TouchInv, TouchTypeOK, CountsAreHolders, DownWhileHeld, Right, AllRight

LEMMA DownKeeps ==
    ASSUME FreshIds, TouchInv, NEW p \in Pointers, NEW b \in Buttons, PointerDown(p, b)
    PROVE  TouchInv'
<1>1. p \notin DOMAIN pointerState /\ pointerState' = With(p, b)
  BY DEF PointerDown, MayTouch
<1>2. Holders(b)' = Holders(b) \cup {p} /\ p \notin Holders(b)
  BY <1>1 DEF Holders, With
<1>3. \A o \in Buttons \ {b} : Holders(o)' = Holders(o)
  BY <1>1 DEF Holders, With
<1>4. AllRight
  BY InvIsRight DEF TouchInv
<1>5. /\ pressCount' = Press(pressCount, b)
      /\ coreDown' = DownAfterPress(coreDown, pressCount, b)
  BY DEF PointerDown
<1>6. IsFiniteSet(Holders(b))
  BY HoldersAreFinite DEF TouchInv
<1>7. /\ pressCount' \in [Buttons -> Nat]
      /\ Right(pressCount', coreDown', b, Holders(b)')
      /\ \A o \in Buttons \ {b} : Right(pressCount', coreDown', o, Holders(o)')
  <2>1. /\ pressCount' \in [Buttons -> Nat]
        /\ Right(pressCount', coreDown', b, Holders(b) \cup {p})
        /\ \A T : \A o \in Buttons \ {b} :
              Right(pressCount, coreDown, o, T) => Right(pressCount', coreDown', o, T)
    <3>1. Right(pressCount, coreDown, b, Holders(b)) /\ pressCount \in [Buttons -> Nat]
      BY <1>4 DEF AllRight
    <3> QED BY <1>2, <1>5, <1>6, <3>1, PressIsRight
  <2> QED BY <1>2, <1>3, <1>4, <2>1 DEF AllRight
<1>8. coreDown' \subseteq Buttons
  BY <1>4, <1>5 DEF DownAfterPress, AllRight
<1>9. TouchTypeOK'
  BY <1>1, <1>7, <1>8 DEF TouchInv, TouchTypeOK, PointerDown, With
<1>10. AllRight'
  BY <1>7, <1>8 DEF AllRight
<1> QED BY <1>9, <1>10, InvIsRightNext

\* A finger slides: it leaves a button, or reaches one, or both.
LEMMA MoveKeeps ==
    ASSUME TouchInv, NEW p \in Pointers, NEW t \in Buttons \cup {Nothing}, PointerMove(p, t)
    PROVE  TouchInv'
<1> DEFINE from == pointerState[p]
           c1 == IF from = Nothing THEN pressCount ELSE Release(pressCount, from)
           d1 == IF from = Nothing THEN coreDown
                 ELSE DownAfterRelease(coreDown, pressCount, from)
           H1(b) == Holders(b) \ {p}
<1>1. CASE p \notin DOMAIN pointerState \/ from = t
  BY <1>1 DEF PointerMove, TouchInv, TouchTypeOK, CountsAreHolders, DownWhileHeld, Holders
<1>2. CASE p \in DOMAIN pointerState /\ from # t
  <2>1. /\ pressCount' = IF t = Nothing THEN c1 ELSE Press(c1, t)
        /\ coreDown' = IF t = Nothing THEN d1 ELSE DownAfterPress(d1, c1, t)
        /\ pointerState' = With(p, t)
        /\ UNCHANGED <<fingers, lost>>
    BY <1>2 DEF PointerMove
  <2>2. from \in Buttons \cup {Nothing}
    BY <1>2 DEF TouchInv, TouchTypeOK
  <2>3. AllRight
    BY InvIsRight DEF TouchInv
  <2>4. \A b \in Buttons : IsFiniteSet(Holders(b)) /\ IsFiniteSet(H1(b))
    <3>1. \A b \in Buttons : IsFiniteSet(Holders(b))
      BY HoldersAreFinite DEF TouchInv
    <3> QED BY <3>1, FS_RemoveElement
  <2>5. \A b \in Buttons : b # from => H1(b) = Holders(b)
    BY <1>2 DEF Holders
  <2>6. from \in Buttons => p \in Holders(from)
    BY <1>2 DEF Holders
  <2>7. \A b \in Buttons : Holders(b)' = IF b = t THEN H1(b) \cup {p} ELSE H1(b)
    BY <1>2, <2>1 DEF Holders, With
  \* After the button left.
  <2>8. /\ c1 \in [Buttons -> Nat] /\ d1 \subseteq Buttons
        /\ \A b \in Buttons : Right(c1, d1, b, H1(b))
    <3>1. CASE from = Nothing
      BY <3>1, <2>3, <2>5, NothingAssumption DEF AllRight
    <3>2. CASE from \in Buttons
      <4>1. from # Nothing
        BY <3>2, NothingAssumption
      <4>2. d1 \subseteq Buttons
        BY <4>1, <2>3 DEF DownAfterRelease, AllRight
      <4>3. Right(pressCount, coreDown, from, Holders(from))
            /\ pressCount \in [Buttons -> Nat] /\ IsFiniteSet(Holders(from))
        BY <3>2, <2>3, <2>4 DEF AllRight
      <4>4. /\ c1 \in [Buttons -> Nat]
            /\ Right(c1, d1, from, H1(from))
            /\ \A T : \A o \in Buttons \ {from} :
                  Right(pressCount, coreDown, o, T) => Right(c1, d1, o, T)
        <5> HIDE DEF from
        <5> QED BY <4>1, <4>3, <3>2, <2>6, ReleaseIsRight
      <4>5. \A o \in Buttons \ {from} : Right(c1, d1, o, H1(o))
        BY <4>4, <2>3, <2>5 DEF AllRight
      <4> QED BY <4>2, <4>4, <4>5
    <3> QED BY <2>2, <3>1, <3>2
  \* After the button reached.
  <2>9. AllRight'
    <3> HIDE DEF c1, d1, H1
    <3>1. CASE t = Nothing
      BY <3>1, <2>1, <2>7, <2>8, NothingAssumption DEF AllRight
    <3>2. CASE t \in Buttons
      <4>1. t # Nothing /\ pressCount' = Press(c1, t) /\ coreDown' = DownAfterPress(d1, c1, t)
        BY <3>2, <2>1, NothingAssumption
      <4>2. p \notin H1(t)
        BY DEF H1
      <4>3. /\ Press(c1, t) \in [Buttons -> Nat]
            /\ Right(Press(c1, t), DownAfterPress(d1, c1, t), t, H1(t) \cup {p})
            /\ \A T : \A o \in Buttons \ {t} :
                  Right(c1, d1, o, T)
                     => Right(Press(c1, t), DownAfterPress(d1, c1, t), o, T)
        BY <3>2, <4>2, <2>4, <2>8, PressIsRight
      <4>4. coreDown' \subseteq Buttons
        BY <3>2, <4>1, <2>8 DEF DownAfterPress
      <4>5. \A b \in Buttons : Right(pressCount', coreDown', b, Holders(b)')
        BY <4>1, <4>3, <2>7, <2>8
      <4> QED BY <4>1, <4>3, <4>4, <4>5 DEF AllRight
    <3> QED BY <3>1, <3>2
  <2>10. TouchTypeOK'
    BY <1>2, <2>1, <2>9 DEF TouchInv, TouchTypeOK, With, AllRight
  <2> QED BY <2>9, <2>10, InvIsRightNext
<1> QED BY <1>1, <1>2

LEMMA UpKeeps ==
    ASSUME TouchInv, NEW p \in Pointers, PointerUp(p)
    PROVE  TouchInv'
<1> PICK from : from = pointerState[p]
  OBVIOUS
<1>1. CASE p \notin DOMAIN pointerState
  BY <1>1 DEF PointerUp, TouchInv, TouchTypeOK, CountsAreHolders, DownWhileHeld, Holders
<1>2. CASE p \in DOMAIN pointerState
  <2>1. pointerState' = Without(p) /\ fingers' = fingers \ {p} /\ lost' = lost
    BY <1>2 DEF PointerUp
  <2>2. from \in Buttons \cup {Nothing}
    BY <1>2 DEF TouchInv, TouchTypeOK
  <2>3. \A b \in Buttons : b # from => Holders(b)' = Holders(b)
    BY <1>2, <2>1 DEF Holders, Without
  <2>4. AllRight
    BY InvIsRight DEF TouchInv
  <2>5. AllRight'
    <3>1. CASE from = Nothing
      <4>1. UNCHANGED <<pressCount, coreDown>>
        BY <1>2, <3>1 DEF PointerUp
      <4>2. \A b \in Buttons : Holders(b)' = Holders(b)
        BY <2>3, <3>1, NothingAssumption
      <4> QED BY <4>1, <4>2, <2>4 DEF AllRight
    <3>2. CASE from \in Buttons
      <4>1. /\ pressCount' = Release(pressCount, from)
            /\ coreDown' = DownAfterRelease(coreDown, pressCount, from)
        BY <1>2, <3>2, NothingAssumption DEF PointerUp
      <4>2. Holders(from)' = Holders(from) \ {p} /\ p \in Holders(from)
        BY <1>2, <2>1 DEF Holders, Without
      <4>3. IsFiniteSet(Holders(from)) /\ Right(pressCount, coreDown, from, Holders(from))
        BY <3>2, <2>4, HoldersAreFinite DEF TouchInv, AllRight
      <4>4. /\ pressCount' \in [Buttons -> Nat]
            /\ Right(pressCount', coreDown', from, Holders(from)')
            /\ \A T : \A o \in Buttons \ {from} :
                  Right(pressCount, coreDown, o, T) => Right(pressCount', coreDown', o, T)
        <5>1. pressCount \in [Buttons -> Nat]
          BY <2>4 DEF AllRight
        <5>2. /\ Release(pressCount, from) \in [Buttons -> Nat]
              /\ Right(Release(pressCount, from), DownAfterRelease(coreDown, pressCount, from),
                       from, Holders(from) \ {p})
              /\ \A T : \A o \in Buttons \ {from} :
                    Right(pressCount, coreDown, o, T)
                       => Right(Release(pressCount, from),
                                DownAfterRelease(coreDown, pressCount, from), o, T)
          BY <3>2, <4>2, <4>3, <5>1, ReleaseIsRight
        <5> QED BY <4>1, <4>2, <5>2
      <4>5. coreDown' \subseteq Buttons
        BY <4>1, <2>4 DEF DownAfterRelease, AllRight
      <4> QED BY <4>4, <4>5, <2>3, <2>4 DEF AllRight
    <3> QED BY <2>2, <3>1, <3>2
  <2>6. TouchTypeOK'
    BY <1>2, <2>1, <2>5 DEF TouchInv, TouchTypeOK, Without, AllRight
  <2> QED BY <2>5, <2>6, InvIsRightNext
<1> QED BY <1>1, <1>2

LEMMA LeaveKeeps ==
    ASSUME TouchInv, Leave
    PROVE  TouchInv' /\ coreDown' = {}
<1>1. \A b \in Buttons : Holders(b)' = {}
  BY DEF Leave, Holders
<1>2. \A b \in Buttons : /\ Cardinality(Holders(b)) \in Nat
                         /\ pressCount[b] = Cardinality(Holders(b))
  BY HoldersAreFinite DEF TouchInv, CountsAreHolders
<1>3. pressCount' = [b \in Buttons |-> 0]
  BY <1>2 DEF Leave
<1>4. coreDown' = {}
  BY <1>3 DEF Leave, TouchInv, DownWhileHeld
<1>5. TouchTypeOK'
  BY <1>3, <1>4 DEF Leave, TouchInv, TouchTypeOK
<1>6. CountsAreHolders' /\ DownWhileHeld'
  BY <1>1, <1>3, <1>4, FS_EmptySet DEF CountsAreHolders, DownWhileHeld
<1> QED BY <1>4, <1>5, <1>6 DEF TouchInv

LEMMA TouchStep ==
    ASSUME FreshIds, TouchInv, [TouchNext]_touchVars
    PROVE  TouchInv'
<1>1. ASSUME NEW p \in Pointers, PointerDownElsewhere(p) PROVE TouchInv'
  BY <1>1 DEF PointerDownElsewhere, TouchInv, TouchTypeOK, CountsAreHolders, DownWhileHeld, Holders
<1>2. ASSUME NEW p \in Pointers, LosePointerUp(p) PROVE TouchInv'
  BY <1>2, MaxLostAssumption
     DEF LosePointerUp, TouchInv, TouchTypeOK, CountsAreHolders, DownWhileHeld, Holders
<1>3. CASE UNCHANGED touchVars
  BY <1>3 DEF touchVars, TouchInv, TouchTypeOK, CountsAreHolders, DownWhileHeld, Holders
<1> QED
  BY <1>1, <1>2, <1>3, DownKeeps, MoveKeeps, UpKeeps, LeaveKeeps DEF TouchNext

LEMMA TouchInvInvariant ==
    ASSUME FreshIds PROVE TouchSpec => []TouchInv
<1>1. TouchInit => TouchInv
  <2> SUFFICES ASSUME TouchInit PROVE TouchInv
    OBVIOUS
  <2>1. \A b \in Buttons : Holders(b) = {}
    BY DEF TouchInit, Holders
  <2>2. TouchTypeOK
    BY MaxLostAssumption DEF TouchInit, TouchTypeOK
  <2> QED BY <2>1, <2>2, FS_EmptySet DEF TouchInit, TouchInv, CountsAreHolders, DownWhileHeld
<1>2. TouchInv /\ [TouchNext]_touchVars => TouchInv'
  BY TouchStep
<1> QED BY <1>1, <1>2, PTL DEF TouchSpec

\* touch-controls.tsx "Reference-counts how many active pointers are
\* currently holding each button": the count of a button is the number of
\* fingers recorded on it.
THEOREM TouchCountsAreHolders ==
    ASSUME FreshIds PROVE TouchSpec => []CountsAreHolders
<1>1. TouchInv => CountsAreHolders
  BY DEF TouchInv
<1> QED BY <1>1, TouchInvInvariant, PTL

\* "lifting one of two fingers off the same button doesn't release it": the
\* core is told that a button is down exactly while a finger is recorded on it.
THEOREM TouchDownWhileHeld ==
    ASSUME FreshIds PROVE TouchSpec => []DownWhileHeld
<1>1. TouchInv => DownWhileHeld
  BY DEF TouchInv
<1> QED BY <1>1, TouchInvInvariant, PTL

=============================================================================
