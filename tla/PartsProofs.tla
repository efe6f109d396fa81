---------------------------- MODULE PartsProofs ----------------------------
(***************************************************************************)
(* The parts side by side, for every value of their constants: whichever   *)
(* part is in focus, a behaviour of MCParts is a behaviour of each part's  *)
(* specification, so that what is proved of a part alone holds of the      *)
(* composition the runs check.                                             *)
(***************************************************************************)
EXTENDS MCParts, AudioSourceProofs, CategoryLogProofs, PlatformProofs, HeldInputProofs

(* A step of the composition is a step of every part, or leaves the part's *)
(* variables alone.                                                        *)
LEMMA PartsStep ==
    ASSUME [Next]_vars
    PROVE  /\ [AudioNext]_audioVars /\ [LogNext]_logVars /\ [VolumeNext]_volumeVars
           /\ [HeldNext]_heldVars /\ [ConfigNext]_configVars
           /\ UNCHANGED focus
<1>1. CASE AudioNext /\ UNCHANGED besidesAudio
  BY <1>1 DEF besidesAudio
<1>2. CASE LogNext /\ UNCHANGED besidesLog
  BY <1>2 DEF besidesLog
<1>3. CASE VolumeNext /\ UNCHANGED besidesVolume
  BY <1>3 DEF besidesVolume
<1>4. CASE HeldNext /\ UNCHANGED besidesHeld
  BY <1>4 DEF besidesHeld
<1>5. CASE ConfigNext /\ UNCHANGED besidesConfig
  BY <1>5 DEF besidesConfig
<1>6. CASE UNCHANGED vars
  BY <1>6 DEF vars, besidesConfig
<1> QED BY <1>1, <1>2, <1>3, <1>4, <1>5, <1>6 DEF Next

(* The composition implements each part's specification: the variables of  *)
(* one part are moved by the actions of that part and by nothing else.     *)
THEOREM PartsImplement ==
    Spec => AudioSpec /\ LogSpec /\ VolumeSpec /\ HeldSpec /\ ConfigSpec
<1>1. Init => AudioInit /\ LogInit /\ VolumeInit /\ HeldInit /\ ConfigInit
  BY DEF Init
<1>2. [Next]_vars => /\ [AudioNext]_audioVars /\ [LogNext]_logVars /\ [VolumeNext]_volumeVars
                     /\ [HeldNext]_heldVars /\ [ConfigNext]_configVars
  BY PartsStep
<1> QED BY <1>1, <1>2, PTL DEF Spec, AudioSpec, LogSpec, VolumeSpec, HeldSpec, ConfigSpec

InFocus == focus \in Parts

(* Every variable of every part keeps to its type.                         *)
THEOREM PartsTyped == Spec => []TypeOK
<1>1. Init => InFocus
  BY DEF Init, InFocus
<1>2. InFocus /\ [Next]_vars => InFocus'
  BY PartsStep DEF InFocus
<1>3. InFocus /\ AudioTypeOK /\ LogTypeOK /\ VolumeTypeOK /\ HeldTypeOK /\ ConfigTypeOK
        => TypeOK
  BY DEF TypeOK, InFocus
<1>4. Spec => []InFocus
  BY <1>1, <1>2, PTL DEF Spec
<1>5. Spec => []AudioTypeOK /\ []LogTypeOK
  BY PartsImplement, Types, LogTypes
<1>6. Spec => []VolumeTypeOK /\ []HeldTypeOK /\ []ConfigTypeOK
  BY PartsImplement, VolumeTypes, HeldTyped, StoreTyped
<1> QED BY <1>3, <1>4, <1>5, <1>6, PTL

(* What is proved of each part holds of the composition: the ring, the     *)
(* log's sinks and levels, the calls to the volume service, the keys held  *)
(* and the saved settings stay as they should side by side.                *)
THEOREM PartsSafe ==
    Spec => /\ [](RingIntact /\ NoTornFrame /\ FramesAreCurrent) /\ ImplementsSoundQueue
            /\ [](SinkAlive /\ SlotsCounted /\ LevelInForce)
            /\ [](OneCallEach /\ NewestSent) /\ ReadingsInOrder
            /\ [](NothingStranded /\ NoGhostPress) /\ PressesGoToTheScreen
            /\ []SavedComesBack /\ SaveFindsRoom /\ ImplementsSavedCell
<1>1. Spec => [](RingIntact /\ NoTornFrame /\ FramesAreCurrent) /\ ImplementsSoundQueue
  BY PartsImplement, Intact, Untorn, Current, RefinesSoundQueue, PTL
<1>2. Spec => [](SinkAlive /\ SlotsCounted /\ LevelInForce)
  BY PartsImplement, NoUseAfterFree, Counted, InForce, PTL
<1>3. Spec => [](OneCallEach /\ NewestSent) /\ ReadingsInOrder
  BY PartsImplement, NeverTwo, NewestKept, NewerOnly, PTL
<1>4. Spec => [](NothingStranded /\ NoGhostPress) /\ PressesGoToTheScreen
  BY PartsImplement, NoneStranded, NoGhosts, PressesOnScreen, PTL
<1>5. Spec => []SavedComesBack /\ SaveFindsRoom /\ ImplementsSavedCell
  BY PartsImplement, SavedIsBack, RoomIsFound, RefinesSavedCell, PTL
<1> QED BY <1>1, <1>2, <1>3, <1>4, <1>5
=============================================================================
