------------------------ MODULE ProfileSwitchProofs ------------------------
(***************************************************************************)
(* Proofs about the targeted inventory and about SwitchProfile, which      *)
(* extends it, for any mice, callers, profiles and bounds.                 *)
(***************************************************************************)
EXTENDS ProfileSwitch, FiniteSetTheorems, TLAPS

-----------------------------------------------------------------------------
(* The inventory                                                             *)

\* The automatic selection is a binding stamped with the revision it is given
\* and naming a mouse of the enumeration, or no binding at all.
LEMMA AutoSelectionIsCurrent ==
  ASSUME NEW seen \in SUBSET Devices, NEW revision \in Revs
  PROVE  \/ AutoSelection(seen, revision) = NoBinding
         \/ /\ AutoSelection(seen, revision) \in Bindings
            /\ AutoSelection(seen, revision).id \in seen
            /\ AutoSelection(seen, revision).rev = revision
<1>1. CASE Cardinality(seen) = 1
  <2>1. IsFiniteSet(seen)
    BY DevicesFinite, FS_Subset
  <2>2. seen # {}
    BY <1>1, FS_EmptySet
  <2>3. (CHOOSE d \in seen : TRUE) \in seen
    BY <2>2
  <2> QED
    BY <1>1, <2>3 DEF AutoSelection, Bindings
<1>2. CASE Cardinality(seen) # 1
  BY <1>2 DEF AutoSelection
<1> QED
  BY <1>1, <1>2

\* A step of the inventory keeps the type of its variables.
LEMMA InventoryTypeStep ==
  ASSUME InventoryTypeOK, [InventoryNext]_inventoryVars
  PROVE  InventoryTypeOK'
<1> USE DEF InventoryTypeOK
<1>1. ASSUME NEW d \in Devices, Plug(d)
      PROVE  InventoryTypeOK'
  BY <1>1 DEF Plug
<1>2. ASSUME NEW d \in Devices, Unplug(d)
      PROVE  InventoryTypeOK'
  BY <1>2 DEF Unplug
<1>3. ASSUME NEW d \in Devices, Select(d)
      PROVE  InventoryTypeOK'
  BY <1>3 DEF Select, Bindings
<1>4. ASSUME NEW c \in Callers, Enumerate(c)
      PROVE  InventoryTypeOK'
  BY <1>4 DEF Enumerate
<1>5. ASSUME NEW c \in Callers, CommitRefresh(c)
      PROVE  InventoryTypeOK'
  <2>1. /\ refreshing[c].seen \in SUBSET Devices
        /\ rev' \in Revs
    BY <1>5, MaxRevIsNat DEF CommitRefresh, Revs
  <2>2. selection' \in Bindings \cup {NoBinding}
    BY <1>5, <2>1, AutoSelectionIsCurrent DEF CommitRefresh
  <2> QED
    BY <1>5, <2>1, <2>2 DEF CommitRefresh, Idle
<1>6. CASE UNCHANGED inventoryVars
  BY <1>6 DEF inventoryVars
<1> QED
  BY <1>1, <1>2, <1>3, <1>4, <1>5, <1>6 DEF InventoryNext

LEMMA InventoryTypeInit == InventoryInit => InventoryTypeOK
BY MaxRevIsNat DEF InventoryInit, InventoryTypeOK, Revs, Idle

\* Every variable of the inventory keeps its type.
THEOREM InventoryTypeCorrect == InventorySpec => []InventoryTypeOK
BY InventoryTypeInit, InventoryTypeStep, PTL DEF InventorySpec

\* The selection always belongs to the newest committed inventory.
THEOREM SelectionStaysCurrent == InventorySpec => []SelectionCurrent
<1>1. InventoryInit => SelectionCurrent
  BY DEF InventoryInit, SelectionCurrent
<1>2. InventoryTypeOK /\ SelectionCurrent /\ [InventoryNext]_inventoryVars => SelectionCurrent'
  <2> SUFFICES ASSUME InventoryTypeOK, SelectionCurrent, [InventoryNext]_inventoryVars
               PROVE  SelectionCurrent'
    OBVIOUS
  <2> USE DEF SelectionCurrent
  <2>1. ASSUME NEW d \in Devices, Plug(d) \/ Unplug(d)
        PROVE  SelectionCurrent'
    BY <2>1 DEF Plug, Unplug
  <2>2. ASSUME NEW d \in Devices, Select(d)
        PROVE  SelectionCurrent'
    BY <2>2 DEF Select
  <2>3. ASSUME NEW c \in Callers, Enumerate(c)
        PROVE  SelectionCurrent'
    BY <2>3 DEF Enumerate
  <2>4. ASSUME NEW c \in Callers, CommitRefresh(c)
        PROVE  SelectionCurrent'
    <3>1. /\ refreshing[c].seen \in SUBSET Devices
          /\ rev' \in Revs
      BY <2>4, MaxRevIsNat DEF CommitRefresh, Revs, InventoryTypeOK
    <3> QED
      BY <2>4, <3>1, AutoSelectionIsCurrent DEF CommitRefresh
  <2>5. CASE UNCHANGED inventoryVars
    BY <2>5 DEF inventoryVars
  <2> QED
    BY <2>1, <2>2, <2>3, <2>4, <2>5 DEF InventoryNext
<1> QED
  BY <1>1, <1>2, InventoryTypeCorrect, PTL DEF InventorySpec

\* A binding of an older inventory never becomes the selection again. The
\* argument is one step: the selection after a step carries the revision after
\* that step, and no step lowers the revision.
THEOREM StaleNeverReturns == InventorySpec => StaleBindingStaysStale
<1>1. InventoryTypeOK /\ InventoryTypeOK' /\ SelectionCurrent' /\ [InventoryNext]_inventoryVars
        => [\A b \in Bindings : b.rev < rev => selection' # b]_inventoryVars
  <2> SUFFICES ASSUME InventoryTypeOK, InventoryTypeOK', SelectionCurrent',
                      [InventoryNext]_inventoryVars,
                      NEW b \in Bindings, b.rev < rev, selection' = b
               PROVE  UNCHANGED inventoryVars
    OBVIOUS
  <2>1. rev \in Nat /\ rev' \in Nat /\ rev <= rev'
    BY MaxRevIsNat DEF InventoryTypeOK, Revs, InventoryNext, Plug, Unplug, Select,
                       Enumerate, CommitRefresh, inventoryVars
  <2>2. b.rev = rev'
    BY NoBindingAssumption DEF SelectionCurrent
  <2>3. b.rev \in Nat
    BY MaxRevIsNat DEF Bindings, Revs
  <2> QED
    BY <2>1, <2>2, <2>3
<1> QED
  BY <1>1, InventoryTypeCorrect, SelectionStaysCurrent, PTL
     DEF InventorySpec, StaleBindingStaysStale

\* A mouse is eligible only once a refresh has been committed.
EligibleCommitted == eligible # {} => rev > 0

LEMMA EligibleStaysCommitted == InventorySpec => []EligibleCommitted
<1>1. InventoryInit => EligibleCommitted
  BY DEF InventoryInit, EligibleCommitted
<1>2. InventoryTypeOK /\ EligibleCommitted /\ [InventoryNext]_inventoryVars => EligibleCommitted'
  BY MaxRevIsNat DEF InventoryTypeOK, EligibleCommitted, Revs, InventoryNext, Plug, Unplug,
                     Select, Enumerate, CommitRefresh, inventoryVars
<1> QED
  BY <1>1, <1>2, InventoryTypeCorrect, PTL DEF InventorySpec

\* The inventory implements Selection. Only Select and the commit of a refresh
\* touch its variables: the first chooses in a committed inventory, the second
\* takes the next revision and selects one mouse of it or none.
THEOREM InventoryImplementsSelection == InventorySpec => ImplementsSelection
<1>1. InventoryInit => Abstract!SelectionInit
  BY DEF InventoryInit, Abstract!SelectionInit
<1>2. InventoryTypeOK /\ EligibleCommitted /\ [InventoryNext]_inventoryVars
        => [Abstract!SelectionNext]_Abstract!selectionVars
  <2> SUFFICES ASSUME InventoryTypeOK, EligibleCommitted, [InventoryNext]_inventoryVars
               PROVE  Abstract!SelectionNext \/ UNCHANGED Abstract!selectionVars
    OBVIOUS
  <2>1. ASSUME NEW d \in Devices, Plug(d) \/ Unplug(d)
        PROVE  UNCHANGED Abstract!selectionVars
    BY <2>1 DEF Plug, Unplug, Abstract!selectionVars
  <2>2. ASSUME NEW d \in Devices, Select(d)
        PROVE  Abstract!SelectionNext
    BY <2>2 DEF Select, EligibleCommitted, Abstract!SelectionNext, Abstract!Choose
  <2>3. ASSUME NEW c \in Callers, Enumerate(c)
        PROVE  UNCHANGED Abstract!selectionVars
    BY <2>3 DEF Enumerate, Abstract!selectionVars
  <2>4. ASSUME NEW c \in Callers, CommitRefresh(c)
        PROVE  Abstract!SelectionNext
    <3>1. /\ refreshing[c].seen \in SUBSET Devices
          /\ rev' \in Revs
      BY <2>4, MaxRevIsNat DEF CommitRefresh, Revs, InventoryTypeOK
    <3>2. selection' \in {NoBinding} \cup [id : Devices, rev : {rev'}]
      BY <2>4, <3>1, AutoSelectionIsCurrent DEF CommitRefresh, Bindings
    <3> QED
      BY <2>4, <3>2 DEF CommitRefresh, Abstract!SelectionNext, Abstract!Renew
  <2>5. CASE UNCHANGED inventoryVars
    BY <2>5 DEF inventoryVars, Abstract!selectionVars
  <2> QED
    BY <2>1, <2>2, <2>3, <2>4, <2>5 DEF InventoryNext
<1> QED
  BY <1>1, <1>2, InventoryTypeCorrect, EligibleStaysCommitted, PTL
     DEF InventorySpec, ImplementsSelection, Abstract!SelectionSpec

-----------------------------------------------------------------------------
(* The switch                                                                *)

LEMMA LanesAreNaturals == Lanes = {1, 2, 3, 4}
BY DEF Lanes

\* A mouse whose four lanes hold one value holds that value everywhere.
LEMMA AllLanesHeld ==
  ASSUME NEW S, NEW f \in [Lanes -> S], NEW v, f[1] = v, f[2] = v, f[3] = v, f[4] = v
  PROVE  f = AllLanes(v)
<1>1. \A l \in Lanes : f[l] = v
  BY LanesAreNaturals
<1>2. f = [l \in Lanes |-> f[l]]
  OBVIOUS
<1> QED
  BY <1>1, <1>2 DEF AllLanes

LEMMA NoWorkIsWork == NoWork \in Works
BY DEF Works

\* What a caller holds in each of its loading steps.
LEMMA LoadingWork ==
  ASSUME NEW w \in Works, w.pc \in {"reload", "restore", "hydrate"}
  PROVE  /\ w \in [pc : {"reload", "restore", "hydrate"}, binding : Bindings,
                   profile : Profiles \cup {NoProfile}, seen : {{}}]
         /\ w.binding.id \in Devices
         /\ w.pc = "hydrate" => w.profile \in Profiles
         /\ w.pc # "hydrate" => w.profile = NoProfile
<1>1. w # NoWork
  BY DEF NoWork
<1>2. w \notin [pc : {"refreshed", "selected"}, binding : {NoBinding}, profile : {NoProfile},
                seen : SUBSET Devices]
  OBVIOUS
<1>3. CASE w \in [pc : {"reload", "restore"}, binding : Bindings, profile : {NoProfile}, seen : {{}}]
  BY <1>3 DEF Bindings
<1>4. CASE w \in [pc : {"hydrate"}, binding : Bindings, profile : Profiles, seen : {{}}]
  BY <1>4 DEF Bindings
<1> QED
  BY <1>1, <1>2, <1>3, <1>4 DEF Works

-----------------------------------------------------------------------------
(* Type correctness *)

LEMMA AllLanesTyped ==
  ASSUME NEW S, NEW v \in S
  PROVE  AllLanes(v) \in [Lanes -> S]
BY DEF AllLanes

\* The initial states are well typed.
LEMMA TypeInit == Init => TypeOK
<1> SUFFICES ASSUME Init
             PROVE  TypeOK
  OBVIOUS
<1>1. InventoryTypeOK /\ work \in [Callers -> Works]
  BY InventoryTypeInit DEF Init, Works
<1>2. /\ AllLanes(Factory) \in [Lanes -> MemoryConfigs]
      /\ AllLanes(Factory) \in [Lanes -> Profiles \cup {Factory, Partial}]
      /\ AllLanes(NoAck) \in [Lanes -> Profiles \cup {NoAck}]
  BY AllLanesTyped DEF MemoryConfigs
<1>3. /\ applied \in [Devices -> [Lanes -> MemoryConfigs]]
      /\ pending \in [Devices -> [Lanes -> MemoryConfigs]]
      /\ acked \in [Devices -> [Lanes -> Profiles \cup {NoAck}]]
      /\ hw \in [Devices -> [Lanes -> Profiles \cup {Factory, Partial}]]
  BY <1>2 DEF Init
<1>4. record \in [Devices -> Profiles] /\ active \in [Devices -> Profiles]
  BY DEF Init
<1>5. lane \in Lanes
  BY LanesAreNaturals DEF Init
<1>6. switches \in 0..MaxSwitches /\ drafts \in 0..MaxDrafts /\ crashes \in 0..MaxCrashes
  BY BoundsAssumption DEF Init
<1>7. known \subseteq Devices /\ loaded \subseteq Devices /\ restaged \in BOOLEAN
  BY DEF Init
<1>8. /\ reported \in [Devices -> {"none", "applied", "error"}]
      /\ pc = "idle" /\ bound = NoBinding /\ target = NoProfile
      /\ ok \in BOOLEAN /\ hydrated \in BOOLEAN
  BY DEF Init
<1> QED
  BY <1>1, <1>3, <1>4, <1>5, <1>6, <1>7, <1>8 DEF TypeOK

LEMMA LoadTypeStep ==
  ASSUME TypeOK, LoadNext
  PROVE  TypeOK'
<1> USE DEF vars, memoryVars, durableVars, opVars, boundVars
<1>1. CASE BusChanges
  <2>1. InventoryTypeOK'
    BY <1>1, InventoryTypeStep DEF BusChanges, InventoryNext, TypeOK
  <2> QED
    BY <1>1, <2>1 DEF BusChanges, TypeOK
<1>2. CASE GetProfiles
  <2>1. InventoryTypeOK'
    BY <1>2, InventoryTypeStep DEF GetProfiles, TypeOK
  <2> QED
    BY <1>2, <2>1 DEF GetProfiles, TypeOK, HydrateMemory, AllLanes, MemoryConfigs, Bindings,
                      InventoryTypeOK, NeedsRestore
<1>3. ASSUME NEW l \in Lanes, Stage(l)
      PROVE  TypeOK'
  <2>1. InventoryTypeOK'
    BY <1>3, InventoryTypeStep DEF Stage, TypeOK
  <2>2. drafts' \in 0..MaxDrafts
    BY <1>3, BoundsAssumption DEF Stage, StagedMouse, TypeOK
  <2>3. pending' \in [Devices -> [Lanes -> MemoryConfigs]]
    BY <1>3 DEF Stage, TypeOK, MemoryConfigs
  <2> QED
    BY <1>3, <2>1, <2>2, <2>3 DEF Stage, TypeOK
<1>12. CASE StageSettings
  <2>1. InventoryTypeOK'
    BY <1>12, InventoryTypeStep DEF StageSettings, TypeOK
  <2>2. drafts' \in 0..MaxDrafts
    BY <1>12, BoundsAssumption DEF StageSettings, StagedMouse, TypeOK
  <2>3. PICK d \in Devices :
          /\ applied' = [applied EXCEPT ![d][OneFieldLane] = Draft]
          /\ pending' = [pending EXCEPT ![d][OneFieldLane] = Draft]
          /\ restaged' = (restaged \/ (pc # "idle" /\ bound.id = d /\ lane > OneFieldLane))
    BY <1>12, Zenon DEF StageSettings
  <2>4. applied' \in [Devices -> [Lanes -> MemoryConfigs]]
    BY <2>3 DEF TypeOK, MemoryConfigs
  <2>5. pending' \in [Devices -> [Lanes -> MemoryConfigs]]
    BY <2>3 DEF TypeOK, MemoryConfigs
  <2>6. restaged' \in BOOLEAN
    BY <2>3, Zenon
  <2> QED
    BY <1>12, <2>1, <2>2, <2>4, <2>5, <2>6 DEF StageSettings, TypeOK
<1>4. ASSUME NEW c \in Callers, StartRefresh(c)
      PROVE  TypeOK'
  <2>1. InventoryTypeOK'
    BY <1>4, InventoryTypeStep DEF StartRefresh, InventoryNext, TypeOK
  <2> QED
    BY <1>4, <2>1 DEF StartRefresh, TypeOK
<1>5. ASSUME NEW c \in Callers, FinishRefresh(c)
      PROVE  TypeOK'
  <2>1. InventoryTypeOK'
    BY <1>5, InventoryTypeStep DEF FinishRefresh, InventoryNext, TypeOK
  <2>2. refreshing[c].seen \in SUBSET Devices
    BY DEF TypeOK, InventoryTypeOK
  <2>3. [NoWork EXCEPT !.pc = "refreshed", !.seen = refreshing[c].seen] \in Works
    BY <2>2 DEF NoWork, Works
  <2> QED
    BY <1>5, <2>1, <2>3 DEF FinishRefresh, TypeOK
<1>6. ASSUME NEW c \in Callers, CreateStates(c)
      PROVE  TypeOK'
  <2>1. InventoryTypeOK'
    BY <1>6, InventoryTypeStep DEF CreateStates, TypeOK
  <2>2. RestoreSelection \in Works
    BY DEF RestoreSelection, NoWork, Works, TypeOK, InventoryTypeOK
  <2>3. work[c].seen \subseteq Devices
    BY <1>6 DEF TypeOK, Works, CreateStates, NoWork
  <2>4. /\ applied' \in [Devices -> [Lanes -> MemoryConfigs]]
        /\ pending' \in [Devices -> [Lanes -> MemoryConfigs]]
    BY <1>6 DEF CreateStates, TypeOK, MemoryConfigs
  <2> QED
    BY <1>6, <2>1, <2>2, <2>3, <2>4 DEF CreateStates, TypeOK
<1>7. ASSUME NEW c \in Callers, NEW d \in Devices, SelectDevice(c, d)
      PROVE  TypeOK'
  <2>1. InventoryTypeOK'
    BY <1>7, InventoryTypeStep DEF SelectDevice, InventoryNext, TypeOK
  <2>2. [NoWork EXCEPT !.pc = "selected"] \in Works
    BY DEF NoWork, Works
  <2> QED
    BY <1>7, <2>1, <2>2 DEF SelectDevice, TypeOK
<1>8. ASSUME NEW c \in Callers, CheckLoaded(c)
      PROVE  TypeOK'
  <2>1. InventoryTypeOK'
    BY <1>8, InventoryTypeStep DEF CheckLoaded, TypeOK
  <2>2. work'[c] \in Works
    BY <1>8 DEF CheckLoaded, NoWork, Works, TypeOK, InventoryTypeOK
  <2> QED
    BY <1>8, <2>1, <2>2 DEF CheckLoaded, TypeOK
<1>9. ASSUME NEW c \in Callers, ReloadRecord(c)
      PROVE  TypeOK'
  <2>1. InventoryTypeOK'
    BY <1>9, InventoryTypeStep DEF ReloadRecord, TypeOK
  <2>2. /\ work[c] \in [pc : {"reload"}, binding : Bindings, profile : {NoProfile}, seen : {{}}]
        /\ work[c].binding.id \in Devices
    <3>1. work[c] \in Works /\ work[c].pc = "reload"
      BY <1>9 DEF ReloadRecord, TypeOK
    <3> QED
      BY <3>1, LoadingWork
  <2>3. [work[c] EXCEPT !.pc = "restore"] \in Works
    BY <2>2 DEF Works
  <2>4. /\ applied' \in [Devices -> [Lanes -> MemoryConfigs]]
        /\ pending' \in [Devices -> [Lanes -> MemoryConfigs]]
    BY <1>9, <2>2 DEF ReloadRecord, TypeOK, MemoryConfigs
  <2> QED
    BY <1>9, <2>1, <2>3, <2>4 DEF ReloadRecord, TypeOK
<1>10. ASSUME NEW c \in Callers, ReadActive(c)
       PROVE  TypeOK'
  <2>1. InventoryTypeOK'
    BY <1>10, InventoryTypeStep DEF ReadActive, TypeOK
  <2>2. /\ work[c] \in [pc : {"restore"}, binding : Bindings, profile : {NoProfile}, seen : {{}}]
        /\ work[c].binding.id \in Devices
    BY <1>10, LoadingWork DEF ReadActive, TypeOK
  <2>3. [work[c] EXCEPT !.pc = "hydrate", !.profile = active[work[c].binding.id]] \in Works
    BY <2>2 DEF Works, TypeOK
  <2> QED
    BY <1>10, <2>1, <2>3, NoWorkIsWork DEF ReadActive, TypeOK
<1>11. ASSUME NEW c \in Callers, Hydrate(c)
       PROVE  TypeOK'
  <2>1. InventoryTypeOK'
    BY <1>11, InventoryTypeStep DEF Hydrate, TypeOK
  <2>2. work[c].binding.id \in Devices /\ work[c].profile \in Profiles
    <3>1. work[c] \in Works /\ work[c].pc = "hydrate"
      BY <1>11 DEF Hydrate, TypeOK
    <3> QED
      BY <3>1, LoadingWork
  <2>3. AllLanes(work[c].profile) \in [Lanes -> MemoryConfigs]
    BY <2>2, AllLanesTyped DEF MemoryConfigs
  <2>4. /\ applied' \in [Devices -> [Lanes -> MemoryConfigs]]
        /\ pending' \in [Devices -> [Lanes -> MemoryConfigs]]
        /\ UNCHANGED <<acked, known, restaged>> /\ loaded' \subseteq Devices
    <3>1. CASE selection = work[c].binding
      <4>1. HydrateMemory(work[c].binding.id, work[c].profile)
        BY <1>11, <3>1 DEF Hydrate
      <4>2. UNCHANGED <<acked, known, restaged>> /\ loaded' \subseteq Devices
        BY <2>2, <4>1 DEF HydrateMemory, TypeOK
      <4>3. /\ applied' \in [Devices -> [Lanes -> MemoryConfigs]]
            /\ pending' \in [Devices -> [Lanes -> MemoryConfigs]]
        BY <2>2, <2>3, <4>1 DEF HydrateMemory, TypeOK
      <4> QED
        BY <4>2, <4>3
    <3>2. CASE selection # work[c].binding
      BY <1>11, <3>2 DEF Hydrate, TypeOK
    <3> QED
      BY <3>1, <3>2
  <2>5. work' \in [Callers -> Works]
    BY <1>11, NoWorkIsWork DEF Hydrate, TypeOK
  <2> QED
    BY <1>11, <2>1, <2>4, <2>5 DEF Hydrate, TypeOK
<1> QED
  BY <1>1, <1>2, <1>3, <1>4, <1>5, <1>6, <1>7, <1>8, <1>9, <1>10, <1>11, <1>12 DEF LoadNext

\* A running switch knows its binding and its target.
SwitchKnown == pc # "idle" => bound \in Bindings /\ target \in Profiles

LEMMA ReturnTyped ==
  ASSUME TypeOK, NEW outcome \in {"none", "applied", "error"}, Return(outcome)
  PROVE  /\ reported' \in [Devices -> {"none", "applied", "error"}]
         /\ pc' = "idle"
         /\ lane' \in Lanes
         /\ bound' \in Bindings \cup {NoBinding}
         /\ target' \in Profiles \cup {NoProfile}
         /\ ok' \in BOOLEAN /\ hydrated' \in BOOLEAN
BY LanesAreNaturals DEF Return, NoSwitch, TypeOK

\* A step of SwitchProfile keeps the types.
LEMMA SwitchTypeStep ==
  ASSUME TypeOK, SwitchKnown, SwitchNext
  PROVE  TypeOK' /\ SwitchKnown'
<1> USE DEF memoryVars, durableVars, opVars, boundVars, SwitchKnown
<1>0. UNCHANGED inventoryVars /\ InventoryTypeOK'
  <2>1. UNCHANGED inventoryVars
    BY DEF SwitchNext, BeginSwitch, ReturnStale, Gate, Call, Send, SendFails, Ack, AckNeverComes,
           LaneFailed, CompleteLane, SaveRecord, Activate, ActivateFails
  <2> QED
    BY <2>1, InventoryTypeStep DEF TypeOK
<1>a. pc # "idle" => bound.id \in Devices
  BY DEF Bindings
<1>1. ASSUME NEW p \in Profiles, BeginSwitch(p)
      PROVE  TypeOK' /\ SwitchKnown'
  <2>1. selection \in Bindings /\ selection.id \in Devices
    BY <1>1 DEF BeginSwitch, TypeOK, InventoryTypeOK, Bindings
  <2>2. switches' \in 0..MaxSwitches
    BY <1>1, BoundsAssumption DEF BeginSwitch, TypeOK
  <2>3. lane' \in Lanes
    BY <1>1, LanesAreNaturals DEF BeginSwitch
  <2>4. hydrated' \in BOOLEAN
    BY <1>1 DEF BeginSwitch
  <2> QED
    BY <1>0, <1>1, <2>1, <2>2, <2>3, <2>4 DEF BeginSwitch, TypeOK
<1>2. CASE ReturnStale
  BY <1>0, <1>2, ReturnTyped DEF ReturnStale, TypeOK
<1>3. CASE Gate
  BY <1>0, <1>3 DEF Gate, TypeOK
<1>4. CASE Call
  BY <1>0, <1>4 DEF Call, TypeOK
<1>5. CASE Send
  <2>1. hw' \in [Devices -> [Lanes -> Profiles \cup {Factory, Partial}]]
    BY <1>a, <1>5 DEF Send, TypeOK
  <2> QED
    BY <1>0, <1>5, <2>1 DEF Send, TypeOK
<1>6. CASE SendFails
  BY <1>0, <1>6 DEF SendFails, TypeOK
<1>7. CASE Ack
  <2>1. /\ hw' \in [Devices -> [Lanes -> Profiles \cup {Factory, Partial}]]
        /\ acked' \in [Devices -> [Lanes -> Profiles \cup {NoAck}]]
    BY <1>a, <1>7 DEF Ack, TypeOK
  <2> QED
    BY <1>0, <1>7, <2>1 DEF Ack, TypeOK
<1>8. CASE AckNeverComes
  BY <1>0, <1>8 DEF AckNeverComes, TypeOK
<1>9. CASE LaneFailed
  BY <1>0, <1>9, ReturnTyped DEF LaneFailed, TypeOK
<1>10. CASE CompleteLane
  <2>1. /\ applied' \in [Devices -> [Lanes -> MemoryConfigs]]
        /\ pending' \in [Devices -> [Lanes -> MemoryConfigs]]
    BY <1>a, <1>10 DEF CompleteLane, LaneConfirmed, ShowLane, MemoryConfigs, TypeOK
  <2>2. lane' \in Lanes
    BY <1>10, LanesAreNaturals DEF CompleteLane, NextLane, TypeOK
  <2> QED
    BY <1>0, <1>10, <2>1, <2>2 DEF CompleteLane, LaneConfirmed, TypeOK
<1>11. CASE SaveRecord
  <2>1. SavedRecord \in [Devices -> Profiles]
    BY <1>a, <1>11 DEF SaveRecord, SavedRecord, TypeOK
  <2>2. PICK outcome \in SaveOutcomes : record' = outcome.record /\ ok' = outcome.ok
    BY <1>11 DEF SaveRecord
  <2>3. record' \in [Devices -> Profiles] /\ ok' \in BOOLEAN
    <3>1. outcome.record \in {SavedRecord, record} /\ outcome.ok \in BOOLEAN
      <4>1. CASE outcome = [record |-> SavedRecord, ok |-> TRUE]
        BY <4>1
      <4>2. CASE outcome \in [record : {SavedRecord, record}, ok : {FALSE}]
        BY <4>2
      <4> QED
        BY <2>2, <4>1, <4>2 DEF SaveOutcomes
    <3> QED
      BY <2>1, <2>2, <3>1 DEF TypeOK
  <2> QED
    BY <1>0, <1>11, <2>3 DEF SaveRecord, TypeOK
<1>12. CASE Activate
  <2>1. active' \in [Devices -> Profiles]
    BY <1>12 DEF Activate, SwitchedIndex, TypeOK
  <2> QED
    BY <1>0, <1>12, <2>1, ReturnTyped DEF Activate, TypeOK
<1>13. CASE ActivateFails
  <2>1. active' \in [Devices -> Profiles]
    BY <1>13 DEF ActivateFails, FailedIndexes, SwitchedIndex, TypeOK
  <2> QED
    BY <1>0, <1>13, <2>1, ReturnTyped DEF ActivateFails, TypeOK
<1> QED
  BY <1>1, <1>2, <1>3, <1>4, <1>5, <1>6, <1>7, <1>8, <1>9, <1>10, <1>11, <1>12, <1>13
     DEF SwitchNext

LEMMA CrashTypeStep ==
  ASSUME TypeOK, Crash
  PROVE  TypeOK' /\ SwitchKnown'
<1>1. InventoryTypeOK'
  BY MaxRevIsNat DEF Crash, TypeOK, InventoryTypeOK, Revs, Idle
<1>2. /\ applied' \in [Devices -> [Lanes -> MemoryConfigs]]
      /\ pending' \in [Devices -> [Lanes -> MemoryConfigs]]
      /\ acked' \in [Devices -> [Lanes -> Profiles \cup {NoAck}]]
  BY AllLanesTyped DEF Crash, MemoryConfigs
<1>3. crashes' \in 0..MaxCrashes
  BY BoundsAssumption DEF Crash, TypeOK
<1>4. lane' \in Lanes
  BY LanesAreNaturals DEF Crash, NoSwitch
<1>5. work' \in [Callers -> Works]
  BY NoWorkIsWork DEF Crash
<1> QED
  BY <1>1, <1>2, <1>3, <1>4, <1>5 DEF Crash, NoSwitch, TypeOK, SwitchKnown, durableVars

-----------------------------------------------------------------------------
(* The inductive invariant of a switch *)

LEMMA SwitchInvKnows == SwitchInv => SwitchKnown
BY DEF SwitchInv, SwitchKnown

LEMMA SwitchInvInit == Init => SwitchInv
BY DEF Init, SwitchInv, LanesDone, AppliedReportMeansOnMouse

\* What SwitchInv speaks about: nothing the loading paths touch.
LEMMA SwitchInvUnchanged ==
  ASSUME SwitchInv, UNCHANGED <<hw, record, active, reported, opVars>>
  PROVE  SwitchInv'
BY DEF SwitchInv, LanesDone, AppliedReportMeansOnMouse, opVars

LEMMA SwitchInvLoad ==
  ASSUME SwitchInv, LoadNext
  PROVE  SwitchInv'
<1>1. UNCHANGED <<durableVars, reported, opVars>>
  BY DEF LoadNext, BusChanges, GetProfiles, Stage, StageSettings, StartRefresh, FinishRefresh, CreateStates,
         SelectDevice, CheckLoaded, ReloadRecord, ReadActive, Hydrate
<1> QED
  BY <1>1, SwitchInvUnchanged DEF durableVars

\* Returning an error withdraws nothing a finished switch had reported.
LEMMA SwitchInvError ==
  ASSUME TypeOK, SwitchInv, pc # "idle", Return("error"), UNCHANGED hw, UNCHANGED record,
         \A d \in Devices : d # bound.id => active'[d] = active[d]
  PROVE  SwitchInv'
<1>1. pc' = "idle" /\ reported' = [reported EXCEPT ![bound.id] = "error"]
  BY DEF Return, NoSwitch
<1>2. AppliedReportMeansOnMouse'
  <2> SUFFICES ASSUME NEW d \in Devices, reported'[d] = "applied"
               PROVE  hw'[d] = AllLanes(active'[d]) /\ record'[d] = active'[d]
    BY DEF AppliedReportMeansOnMouse
  <2>1. d # bound.id /\ reported[d] = "applied"
    BY <1>1 DEF TypeOK
  <2> QED
    BY <2>1 DEF SwitchInv, AppliedReportMeansOnMouse
<1> QED
  BY <1>1, <1>2 DEF SwitchInv, LanesDone

LEMMA SwitchInvSwitch ==
  ASSUME TypeOK, TypeOK', SwitchInv, SwitchNext
  PROVE  SwitchInv'
<1> USE DEF durableVars
<1>a. pc # "idle" => bound.id \in Devices /\ bound \in Bindings
  BY DEF SwitchInv, Bindings
<1>1. ASSUME NEW p \in Profiles, BeginSwitch(p)
      PROVE  SwitchInv'
  <2>1. selection \in Bindings /\ selection.id \in Devices
    BY <1>1 DEF BeginSwitch, TypeOK, InventoryTypeOK, Bindings
  <2>2. /\ pc' = "gate" /\ lane' = 1 /\ bound' = selection /\ target' = p /\ ok' = FALSE
        /\ reported' = [reported EXCEPT ![selection.id] = "none"]
        /\ UNCHANGED <<hw, record, active>>
    BY <1>1 DEF BeginSwitch
  <2>3. LanesDone'
    BY <2>2, LanesAreNaturals DEF LanesDone
  <2>4. AppliedReportMeansOnMouse'
    BY <2>1, <2>2 DEF SwitchInv, AppliedReportMeansOnMouse, TypeOK
  <2>5. reported'[bound'.id] = "none"
    BY <2>1, <2>2 DEF TypeOK
  <2> QED
    BY <2>1, <2>2, <2>3, <2>4, <2>5 DEF SwitchInv
<1>2. CASE ReturnStale
  BY <1>2, SwitchInvError DEF ReturnStale
<1>3. CASE Gate
  BY <1>3 DEF Gate, SwitchInv, LanesDone, AppliedReportMeansOnMouse
<1>4. CASE Call
  BY <1>4 DEF Call, SwitchInv, LanesDone, AppliedReportMeansOnMouse
<1>5. CASE Send
  <2>1. /\ pc = "send" /\ pc' = "await" /\ UNCHANGED <<record, active, reported, bound, target, lane, ok>>
        /\ \A d \in Devices : d # bound.id => hw'[d] = hw[d]
        /\ \A l \in Lanes : l # lane => hw'[bound.id][l] = hw[bound.id][l]
    BY <1>5, <1>a DEF Send, TypeOK
  <2>2. LanesDone'
    BY <2>1, LanesAreNaturals DEF SwitchInv, LanesDone, TypeOK
  <2>3. AppliedReportMeansOnMouse'
    BY <2>1 DEF SwitchInv, AppliedReportMeansOnMouse
  <2> QED
    BY <2>1, <2>2, <2>3 DEF SwitchInv
<1>6. CASE SendFails
  BY <1>6 DEF SendFails, SwitchInv, LanesDone, AppliedReportMeansOnMouse
<1>7. CASE Ack
  <2>1. /\ pc = "await" /\ pc' = "returned" /\ UNCHANGED <<record, active, reported, bound, target, lane>>
        /\ \A d \in Devices : d # bound.id => hw'[d] = hw[d]
        /\ \A l \in Lanes : l # lane => hw'[bound.id][l] = hw[bound.id][l]
        /\ hw'[bound.id][lane] = target
    BY <1>7, <1>a DEF Ack, TypeOK
  <2>2. LanesDone'
    BY <2>1, LanesAreNaturals DEF SwitchInv, LanesDone, TypeOK
  <2>3. AppliedReportMeansOnMouse'
    BY <2>1 DEF SwitchInv, AppliedReportMeansOnMouse
  <2> QED
    BY <2>1, <2>2, <2>3 DEF SwitchInv
<1>8. CASE AckNeverComes
  BY <1>8 DEF AckNeverComes, SwitchInv, LanesDone, AppliedReportMeansOnMouse
<1>9. CASE LaneFailed
  BY <1>9, SwitchInvError DEF LaneFailed
<1>10. CASE CompleteLane
  <2>1. /\ pc = "returned" /\ ok /\ ok' = FALSE
        /\ pc' = (IF lane = 4 THEN "save" ELSE "gate")
        /\ lane' = (IF lane = 4 THEN lane ELSE lane + 1)
        /\ UNCHANGED <<hw, record, active, reported, bound, target>>
    BY <1>10 DEF CompleteLane, LaneConfirmed, NextLane
  <2>2. hw[bound.id][lane] = target /\ \A l \in Lanes : l < lane => hw[bound.id][l] = target
    BY <2>1 DEF SwitchInv, LanesDone
  <2>3. LanesDone'
    <3>1. CASE lane = 4
      <4>1. hw[bound.id] = AllLanes(target)
        <5>1. hw[bound.id] \in [Lanes -> Profiles \cup {Factory, Partial}]
          BY <1>a, <2>1 DEF TypeOK
        <5>2. /\ hw[bound.id][1] = target /\ hw[bound.id][2] = target
              /\ hw[bound.id][3] = target /\ hw[bound.id][4] = target
          BY <2>2, <3>1, LanesAreNaturals
        <5> QED
          BY <5>1, <5>2, AllLanesHeld
      <4> QED
        BY <2>1, <2>2, <3>1, <4>1 DEF LanesDone
    <3>2. CASE lane # 4
      BY <2>1, <2>2, <3>2, LanesAreNaturals DEF LanesDone, TypeOK
    <3> QED
      BY <3>1, <3>2
  <2> QED
    BY <2>1, <2>3 DEF SwitchInv, AppliedReportMeansOnMouse
<1>11. CASE SaveRecord
  <2>1. /\ pc = "save" /\ pc' = "activate" /\ UNCHANGED <<hw, active, reported, bound, target, lane>>
        /\ \E outcome \in SaveOutcomes : record' = outcome.record /\ ok' = outcome.ok
    BY <1>11 DEF SaveRecord
  <2>2. /\ ok' => record' = SavedRecord
        /\ record' \in {record, SavedRecord}
    <3>1. PICK outcome \in SaveOutcomes : record' = outcome.record /\ ok' = outcome.ok
      BY <2>1
    <3>2. CASE outcome = [record |-> SavedRecord, ok |-> TRUE]
      BY <3>1, <3>2
    <3>3. CASE outcome \in [record : {SavedRecord, record}, ok : {FALSE}]
      BY <3>1, <3>3
    <3> QED
      BY <3>1, <3>2, <3>3 DEF SaveOutcomes
  <2>3. /\ SavedRecord[bound.id] = target
        /\ \A d \in Devices : d # bound.id => record'[d] = record[d]
    BY <1>a, <2>1, <2>2 DEF SavedRecord, TypeOK
  <2>4. LanesDone'
    BY <2>1 DEF SwitchInv, LanesDone
  <2>5. AppliedReportMeansOnMouse'
    BY <2>1, <2>3 DEF SwitchInv, AppliedReportMeansOnMouse
  <2> QED
    BY <2>1, <2>2, <2>3, <2>4, <2>5 DEF SwitchInv
<1>12. CASE Activate
  <2>1. /\ pc = "activate" /\ ok /\ pc' = "idle" /\ UNCHANGED <<hw, record>>
        /\ active' = [active EXCEPT ![bound.id] = target]
        /\ reported' = [reported EXCEPT ![bound.id] = "applied"]
    BY <1>12 DEF Activate, Return, NoSwitch, SwitchedIndex
  <2>2. hw[bound.id] = AllLanes(target) /\ record[bound.id] = target
    BY <2>1 DEF SwitchInv, LanesDone
  <2>3. AppliedReportMeansOnMouse'
    BY <1>a, <2>1, <2>2 DEF SwitchInv, AppliedReportMeansOnMouse, TypeOK
  <2> QED
    BY <2>1, <2>3 DEF SwitchInv, LanesDone
<1>13. CASE ActivateFails
  <2>1. \A d \in Devices : d # bound.id => active'[d] = active[d]
    BY <1>13 DEF ActivateFails, FailedIndexes, SwitchedIndex, TypeOK
  <2> QED
    BY <1>13, <2>1, SwitchInvError DEF ActivateFails
<1> QED
  BY <1>1, <1>2, <1>3, <1>4, <1>5, <1>6, <1>7, <1>8, <1>9, <1>10, <1>11, <1>12, <1>13
     DEF SwitchNext

LEMMA SwitchInvCrash == SwitchInv /\ Crash => SwitchInv'
BY DEF Crash, NoSwitch, SwitchInv, LanesDone, AppliedReportMeansOnMouse, durableVars

LEMMA InductiveStep ==
  ASSUME TypeOK, SwitchInv, [Next]_vars
  PROVE  TypeOK' /\ SwitchInv'
<1>1. CASE LoadNext
  BY <1>1, LoadTypeStep, SwitchInvLoad
<1>2. CASE SwitchNext
  BY <1>2, SwitchTypeStep, SwitchInvSwitch, SwitchInvKnows
<1>3. CASE Crash
  BY <1>3, CrashTypeStep, SwitchInvCrash
<1>4. CASE UNCHANGED vars
  <2>1. UNCHANGED <<plugged, eligible, rev, selection, refreshing, work, known, loaded, applied,
                    pending, acked, restaged, hw, record, active, reported, pc, lane, bound, target, ok,
                    hydrated, switches, drafts, crashes>>
    BY <1>4 DEF vars, inventoryVars, memoryVars, durableVars, opVars, boundVars
  <2>2. TypeOK'
    BY <2>1 DEF TypeOK, InventoryTypeOK
  <2>3. SwitchInv'
    BY <2>1, SwitchInvUnchanged DEF opVars
  <2> QED
    BY <2>2, <2>3
<1> QED
  BY <1>1, <1>2, <1>3, <1>4 DEF Next

\* Every variable keeps its type, for any mice, callers, profiles and bounds.
THEOREM TypeCorrect == Spec => []TypeOK
<1>1. Init => TypeOK /\ SwitchInv
  BY TypeInit, SwitchInvInit
<1>2. TypeOK /\ SwitchInv /\ [Next]_vars => (TypeOK /\ SwitchInv)'
  BY InductiveStep
<1> QED
  BY <1>1, <1>2, PTL DEF Spec

\* The inductive invariant of a switch.
THEOREM SwitchInvHolds == Spec => []SwitchInv
<1>1. Init => TypeOK /\ SwitchInv
  BY TypeInit, SwitchInvInit
<1>2. TypeOK /\ SwitchInv /\ [Next]_vars => (TypeOK /\ SwitchInv)'
  BY InductiveStep
<1> QED
  BY <1>1, <1>2, PTL DEF Spec

\* No switch reaches a later lane past a write that was not acknowledged.
THEOREM LanesAreDone == Spec => []LanesDone
<1>1. SwitchInv => LanesDone
  BY DEF SwitchInv
<1> QED
  BY <1>1, SwitchInvHolds, PTL

\* A reported success stays true of the mouse and of the files until the next
\* switch of that mouse, whatever is plugged, selected or restarted meanwhile.
THEOREM AppliedReportsAreTrue == Spec => []AppliedReportMeansOnMouse
<1>1. SwitchInv => AppliedReportMeansOnMouse
  BY DEF SwitchInv
<1> QED
  BY <1>1, SwitchInvHolds, PTL

\* The active pointer moves only to a profile the mouse holds on every lane and
\* the device record was saved from.
THEOREM ActivationIsComplete == Spec => ActivationComplete
<1>1. TypeOK /\ SwitchInv /\ [Next]_vars
        => [\A d \in Devices : active'[d] # active[d] =>
              /\ hw[d] = AllLanes(active'[d])
              /\ record[d] = active'[d]]_vars
  <2> SUFFICES ASSUME TypeOK, SwitchInv, [Next]_vars,
                      NEW d \in Devices, active'[d] # active[d]
               PROVE  hw[d] = AllLanes(active'[d]) /\ record[d] = active'[d]
    OBVIOUS
  <2>1. Activate \/ ActivateFails
    BY DEF Next, LoadNext, SwitchNext, vars, durableVars, BusChanges, GetProfiles, Stage, StageSettings,
           StartRefresh, FinishRefresh, CreateStates, SelectDevice, CheckLoaded, ReloadRecord,
           ReadActive, Hydrate, BeginSwitch, ReturnStale, Gate, Call, Send, SendFails, Ack,
           AckNeverComes, LaneFailed, CompleteLane, SaveRecord, Crash
  <2>2. pc = "activate" /\ ok /\ active' = [active EXCEPT ![bound.id] = target]
    BY <2>1 DEF Activate, ActivateFails, FailedIndexes, SwitchedIndex
  <2>3. d = bound.id /\ active'[d] = target
    BY <2>2 DEF TypeOK
  <2> QED
    BY <2>2, <2>3 DEF SwitchInv, LanesDone
<1> QED
  BY <1>1, TypeCorrect, SwitchInvHolds, PTL DEF Spec, ActivationComplete

-----------------------------------------------------------------------------
(* Memory of a hydrated mouse *)

\* A mouse is hydrated once: whoever hydrates it found it known and not loaded,
\* and is alone in doing so.
HydrationInv ==
  /\ loaded \subseteq known
  /\ \A c \in Callers : work[c].pc = "hydrate" =>
       /\ work[c].binding.id \in known \ loaded
       /\ \A other \in Callers : work[other].pc = "hydrate" => other = c

\* A lane is completed with the value it acknowledged.
AckedInv == pc = "returned" /\ ok => acked[bound.id][lane] = target

\* The running switch shows what it wrote on a lane, or what was staged since.
Shown(l) == applied[bound.id][l] = target \/ (restaged /\ ShowsDraft(bound.id, l))

\* A switch that began on a hydrated mouse shows the lanes it has been through.
ShownInv ==
  pc # "idle" /\ hydrated =>
    /\ bound.id \in loaded
    /\ ~Reloading(bound.id)
    /\ pc \in {"save", "activate"} => lane = 4
    /\ \A l \in Lanes : l < lane \/ pc \in {"save", "activate"} => Shown(l)

MemoryInv == HydrationInv /\ AckedInv /\ ShownInv

LEMMA MemoryInit == Init => MemoryInv
BY DEF Init, MemoryInv, HydrationInv, AckedInv, ShownInv, NoWork

\* Every id a caller restores or reloads is a mouse.
LEMMA LoadedMouse ==
  ASSUME TypeOK, NEW c \in Callers, work[c].pc \in {"reload", "restore", "hydrate"}
  PROVE  work[c].binding.id \in Devices
BY LoadingWork DEF TypeOK

\* What a step of the loading paths does to a mouse that is hydrated and not
\* about to be reloaded: it stays so, a lane's pending value changes only to a draft
\* and its applied one only to the draft of a one-field setting, which is noted when
\* a switch has completed that lane.
HydratedKept(d) ==
  /\ d \in loaded'
  /\ ~Reloading(d)'
  /\ restaged => restaged'
  /\ \A l \in Lanes :
       /\ pending'[d][l] \in {pending[d][l], Draft}
       /\ applied'[d][l] # applied[d][l] =>
            /\ ShowsDraft(d, l)'
            /\ pc # "idle" /\ bound.id = d /\ lane > OneFieldLane => restaged'

LEMMA LoadKeepsHydrated ==
  ASSUME TypeOK, HydrationInv, LoadNext, NEW d \in loaded, ~Reloading(d)
  PROVE  HydratedKept(d)
<1> USE DEF HydratedKept, Reloading
<1>0. d \in Devices /\ d \in known
  BY DEF TypeOK, HydrationInv
<1>1. CASE BusChanges
  BY <1>1 DEF BusChanges, memoryVars
<1>2. CASE GetProfiles
  <2>1. selection.id # d
    BY <1>2 DEF GetProfiles, NeedsRestore
  <2> QED
    BY <1>0, <1>2, <2>1 DEF GetProfiles, HydrateMemory, TypeOK
<1>3. ASSUME NEW l \in Lanes, Stage(l)
      PROVE  HydratedKept(d)
  BY <1>0, <1>3 DEF Stage, TypeOK
<1>12. CASE StageSettings
  <2>1. PICK m \in Devices :
          /\ applied' = [applied EXCEPT ![m][OneFieldLane] = Draft]
          /\ pending' = [pending EXCEPT ![m][OneFieldLane] = Draft]
          /\ restaged' = (restaged \/ (pc # "idle" /\ bound.id = m /\ lane > OneFieldLane))
    BY <1>12, Zenon DEF StageSettings
  <2>2. \A l \in Lanes : pending'[d][l] \in {pending[d][l], Draft}
    BY <1>0, <2>1 DEF TypeOK
  <2>3. ASSUME NEW l \in Lanes, applied'[d][l] # applied[d][l]
        PROVE  m = d /\ ShowsDraft(d, l)'
    BY <1>0, <2>1, <2>3 DEF ShowsDraft, TypeOK
  <2>4. (restaged => restaged') /\ (pc # "idle" /\ bound.id = m /\ lane > OneFieldLane => restaged')
    BY <2>1, Zenon
  <2> QED
    BY <1>12, <2>2, <2>3, <2>4 DEF StageSettings
<1>4. ASSUME NEW c \in Callers, StartRefresh(c)
      PROVE  HydratedKept(d)
  BY <1>4 DEF StartRefresh, memoryVars
<1>5. ASSUME NEW c \in Callers, FinishRefresh(c)
      PROVE  HydratedKept(d)
  <2>1. work' = [work EXCEPT ![c] = [NoWork EXCEPT !.pc = "refreshed", !.seen = refreshing[c].seen]]
    BY <1>5 DEF FinishRefresh
  <2>2. work'[c].pc = "refreshed"
    BY <2>1, <1>5 DEF TypeOK, NoWork
  <2>3. ~Reloading(d)'
    BY <2>1, <2>2 DEF TypeOK
  <2> QED
    BY <1>5, <2>3 DEF FinishRefresh, memoryVars
<1>6. ASSUME NEW c \in Callers, CreateStates(c)
      PROVE  HydratedKept(d)
  <2>1. work' = [work EXCEPT ![c] = RestoreSelection]
    BY <1>6 DEF CreateStates
  <2>2. work'[c].pc # "reload"
    BY <2>1, <1>6 DEF TypeOK, NoWork, RestoreSelection
  <2>3. ~Reloading(d)'
    BY <2>1, <2>2 DEF TypeOK
  <2>4. applied'[d] = applied[d] /\ pending'[d] = pending[d]
    BY <1>0, <1>6 DEF CreateStates
  <2> QED
    BY <1>6, <2>3, <2>4 DEF CreateStates
<1>7. ASSUME NEW c \in Callers, NEW m \in Devices, SelectDevice(c, m)
      PROVE  HydratedKept(d)
  <2>1. work' = [work EXCEPT ![c] = [NoWork EXCEPT !.pc = "selected"]]
    BY <1>7 DEF SelectDevice
  <2>2. work'[c].pc = "selected"
    BY <2>1, <1>7 DEF TypeOK, NoWork
  <2>3. ~Reloading(d)'
    BY <2>1, <2>2 DEF TypeOK
  <2> QED
    BY <1>7, <2>3 DEF SelectDevice, memoryVars
<1>8. ASSUME NEW c \in Callers, CheckLoaded(c)
      PROVE  HydratedKept(d)
  <2>1. work' = [work EXCEPT ![c] =
          IF selection = NoBinding THEN NoWork
          ELSE [NoWork EXCEPT !.pc = IF selection.id \in loaded THEN "restore" ELSE "reload",
                              !.binding = selection]]
    BY <1>8 DEF CheckLoaded
  <2>2. work'[c].pc = "reload" => work'[c].binding.id # d
    BY <2>1, <1>8 DEF TypeOK, NoWork
  <2>3. ~Reloading(d)'
    BY <2>1, <2>2 DEF TypeOK
  <2> QED
    BY <1>8, <2>3 DEF CheckLoaded, memoryVars
<1>9. ASSUME NEW c \in Callers, ReloadRecord(c)
      PROVE  HydratedKept(d)
  <2>1. work' = [work EXCEPT ![c].pc = "restore"] /\ work[c].pc = "reload"
    BY <1>9 DEF ReloadRecord
  <2>2. work'[c].pc = "restore"
    BY <2>1, LoadingWork DEF TypeOK
  <2>3. ~Reloading(d)'
    BY <2>1, <2>2 DEF TypeOK
  <2>4. work[c].binding.id # d
    BY <2>1
  <2>5. applied'[d] = applied[d] /\ pending'[d] = pending[d]
    BY <1>0, <1>9, <2>4 DEF ReloadRecord, TypeOK
  <2> QED
    BY <1>9, <2>3, <2>5 DEF ReloadRecord
<1>10. ASSUME NEW c \in Callers, ReadActive(c)
       PROVE  HydratedKept(d)
  <2>1. work[c].pc = "restore"
        /\ work' = [work EXCEPT ![c] = IF NeedsRestore(work[c].binding.id)
                       THEN [@ EXCEPT !.pc = "hydrate", !.profile = active[work[c].binding.id]]
                       ELSE NoWork]
    BY <1>10 DEF ReadActive
  <2>2. work'[c].pc # "reload"
    BY <2>1, LoadingWork, <1>10 DEF TypeOK, NoWork
  <2>3. ~Reloading(d)'
    BY <2>1, <2>2 DEF TypeOK
  <2> QED
    BY <1>10, <2>3 DEF ReadActive, memoryVars
<1>11. ASSUME NEW c \in Callers, Hydrate(c)
       PROVE  HydratedKept(d)
  <2>1. work[c].pc = "hydrate" /\ work' = [work EXCEPT ![c] = NoWork]
    BY <1>11 DEF Hydrate
  <2>2. work'[c].pc # "reload"
    BY <2>1 DEF TypeOK, NoWork
  <2>3. ~Reloading(d)'
    BY <2>1, <2>2 DEF TypeOK
  <2>4. work[c].binding.id # d
    BY <2>1 DEF HydrationInv
  <2> QED
    BY <1>0, <1>11, <2>3, <2>4 DEF Hydrate, HydrateMemory, memoryVars, TypeOK
<1> QED
  BY <1>1, <1>2, <1>3, <1>4, <1>5, <1>6, <1>7, <1>8, <1>9, <1>10, <1>11, <1>12 DEF LoadNext

\* A caller that hydrates keeps what it found while others move.
LEMMA HydrationByOthers ==
  ASSUME HydrationInv, UNCHANGED loaded, known \subseteq known',
         \A c \in Callers : work'[c].pc = "hydrate" => work'[c] = work[c]
  PROVE  HydrationInv'
BY DEF HydrationInv

LEMMA HydrationLoad ==
  ASSUME TypeOK, HydrationInv, LoadNext
  PROVE  HydrationInv'
<1> USE DEF memoryVars
<1>1. CASE BusChanges
  BY <1>1, HydrationByOthers DEF BusChanges
<1>2. CASE GetProfiles
  BY <1>2 DEF GetProfiles, RestoreFree, NeedsRestore, HydrateMemory, HydrationInv
<1>3. ASSUME NEW l \in Lanes, Stage(l)
      PROVE  HydrationInv'
  BY <1>3, HydrationByOthers DEF Stage
<1>12. CASE StageSettings
  BY <1>12, HydrationByOthers DEF StageSettings
<1>4. ASSUME NEW c \in Callers, StartRefresh(c)
      PROVE  HydrationInv'
  BY <1>4, HydrationByOthers DEF StartRefresh
<1>5. ASSUME NEW c \in Callers, FinishRefresh(c)
      PROVE  HydrationInv'
  BY <1>5, HydrationByOthers DEF FinishRefresh, NoWork, TypeOK
<1>6. ASSUME NEW c \in Callers, CreateStates(c)
      PROVE  HydrationInv'
  BY <1>6, HydrationByOthers DEF CreateStates, RestoreSelection, NoWork, TypeOK
<1>7. ASSUME NEW c \in Callers, NEW m \in Devices, SelectDevice(c, m)
      PROVE  HydrationInv'
  BY <1>7, HydrationByOthers DEF SelectDevice, NoWork, TypeOK
<1>8. ASSUME NEW c \in Callers, CheckLoaded(c)
      PROVE  HydrationInv'
  BY <1>8, HydrationByOthers DEF CheckLoaded, NoWork, TypeOK
<1>9. ASSUME NEW c \in Callers, ReloadRecord(c)
      PROVE  HydrationInv'
  <2>1. work' = [work EXCEPT ![c].pc = "restore"] /\ work[c].pc = "reload"
    BY <1>9 DEF ReloadRecord
  <2>2. work'[c].pc = "restore"
    BY <2>1, LoadingWork DEF TypeOK
  <2> QED
    BY <1>9, <2>1, <2>2, HydrationByOthers DEF ReloadRecord, TypeOK
<1>10. ASSUME NEW c \in Callers, ReadActive(c)
       PROVE  HydrationInv'
  <2>1. /\ work[c].pc = "restore"
        /\ RestoreFree
        /\ UNCHANGED <<known, loaded>>
        /\ work' = [work EXCEPT ![c] = IF NeedsRestore(work[c].binding.id)
                       THEN [@ EXCEPT !.pc = "hydrate", !.profile = active[work[c].binding.id]]
                       ELSE NoWork]
    BY <1>10 DEF ReadActive
  <2>2. CASE NeedsRestore(work[c].binding.id)
    <3>1. work'[c].binding = work[c].binding
      BY <2>1, <2>2, LoadingWork DEF TypeOK
    <3>2. \A other \in Callers : work'[other].pc = "hydrate" => other = c
      BY <2>1 DEF RestoreFree, TypeOK
    <3> QED
      BY <2>1, <2>2, <3>1, <3>2 DEF HydrationInv, NeedsRestore
  <2>3. CASE ~NeedsRestore(work[c].binding.id)
    BY <2>1, <2>3, HydrationByOthers DEF NoWork, TypeOK
  <2> QED
    BY <2>2, <2>3
<1>11. ASSUME NEW c \in Callers, Hydrate(c)
       PROVE  HydrationInv'
  <2>1. work[c].pc = "hydrate" /\ work' = [work EXCEPT ![c] = NoWork]
    BY <1>11 DEF Hydrate
  <2>2. \A other \in Callers : work'[other].pc # "hydrate"
    BY <2>1 DEF HydrationInv, TypeOK, NoWork
  <2>3. loaded' \subseteq known'
    BY <1>11, <2>1 DEF Hydrate, HydrateMemory, HydrationInv
  <2> QED
    BY <2>2, <2>3 DEF HydrationInv
<1> QED
  BY <1>1, <1>2, <1>3, <1>4, <1>5, <1>6, <1>7, <1>8, <1>9, <1>10, <1>11, <1>12 DEF LoadNext

\* A step of SwitchProfile: memory changes only where an acknowledged lane completes.
LEMMA SwitchKeepsLoaded ==
  ASSUME SwitchNext
  PROVE  /\ UNCHANGED <<work, known, loaded>>
         /\ CompleteLane \/ UNCHANGED <<applied, pending>>
<1> USE DEF memoryVars
<1> QED
  BY DEF SwitchNext, BeginSwitch, ReturnStale, Gate, Call, Send, SendFails, Ack, AckNeverComes,
         LaneFailed, CompleteLane, SaveRecord, Activate, ActivateFails

LEMMA AckedStep ==
  ASSUME TypeOK, SwitchInv, AckedInv, SwitchNext
  PROVE  AckedInv'
<1> USE DEF AckedInv, memoryVars, Return, NoSwitch
<1>1. CASE Ack
  BY <1>1 DEF Ack, SwitchInv, Bindings, TypeOK
<1>2. CASE CompleteLane
  BY <1>2 DEF CompleteLane, LaneConfirmed
<1>3. CASE SendFails
  BY <1>3 DEF SendFails, SwitchInv
<1>4. CASE AckNeverComes
  BY <1>4 DEF AckNeverComes, SwitchInv
<1>5. CASE Call
  BY <1>5 DEF Call
<1> QED
  BY <1>1, <1>2, <1>3, <1>4, <1>5
     DEF SwitchNext, BeginSwitch, ReturnStale, Gate, Send, LaneFailed, SaveRecord, Activate,
         ActivateFails

LEMMA ShownStep ==
  ASSUME TypeOK, SwitchInv, ShownInv, SwitchNext
  PROVE  ShownInv'
<1> USE DEF Reloading, memoryVars
<1>1. ASSUME NEW p \in Profiles, BeginSwitch(p)
      PROVE  ShownInv'
  <2>1. /\ pc' = "gate" /\ lane' = 1 /\ bound' = selection /\ UNCHANGED <<work, loaded>>
        /\ hydrated' = (selection.id \in loaded /\ ~Reloading(selection.id))
    BY <1>1 DEF BeginSwitch
  <2>2. \A l \in Lanes : ~(l < lane')
    BY <2>1, LanesAreNaturals
  <2>3. hydrated' => bound'.id \in loaded' /\ ~Reloading(bound.id)'
    BY <2>1
  <2> QED
    BY <2>1, <2>2, <2>3 DEF ShownInv
<1>2. CASE CompleteLane
  <2>1. /\ pc = "returned" /\ bound.id \in Devices
        /\ pc' = (IF lane = 4 THEN "save" ELSE "gate")
        /\ lane' = (IF lane = 4 THEN lane ELSE lane + 1)
        /\ applied' = [applied EXCEPT ![bound.id][lane] = target]
        /\ UNCHANGED <<work, loaded, restaged, bound, target, hydrated>>
    BY <1>2 DEF CompleteLane, LaneConfirmed, NextLane, ShowLane, SwitchInv, Bindings
  <2> SUFFICES ASSUME hydrated
               PROVE  ShownInv'
    BY <2>1 DEF ShownInv
  <2>2. /\ bound.id \in loaded /\ ~Reloading(bound.id)
        /\ \A l \in Lanes : l < lane => Shown(l)
    BY <2>1 DEF ShownInv
  <2>3. applied'[bound.id][lane] = target
    BY <2>1 DEF TypeOK
  <2>4. \A l \in Lanes : l < lane => Shown(l)'
    BY <2>1, <2>2, LanesAreNaturals DEF TypeOK, Shown, ShowsDraft
  <2>5. \A l \in Lanes : l < lane' \/ pc' \in {"save", "activate"} => l < lane \/ l = lane
    BY <2>1, LanesAreNaturals DEF TypeOK
  <2>6. \A l \in Lanes : l < lane' \/ pc' \in {"save", "activate"} => Shown(l)'
    BY <2>1, <2>3, <2>4, <2>5 DEF Shown
  <2> QED
    BY <2>1, <2>2, <2>6 DEF ShownInv
<1>3. CASE pc' = "idle"
  BY <1>3 DEF ShownInv
<1>4. CASE SaveRecord
  BY <1>4 DEF SaveRecord, ShownInv, Shown, ShowsDraft
<1>5. CASE Gate \/ Call \/ Send \/ SendFails \/ Ack \/ AckNeverComes
  <2>1. /\ pc # "idle" /\ pc' \notin {"save", "activate"}
        /\ UNCHANGED <<work, loaded, applied, restaged, lane, bound, target, hydrated>>
    BY <1>5 DEF Gate, Call, Send, SendFails, Ack, AckNeverComes
  <2> QED
    BY <2>1 DEF ShownInv, Shown, ShowsDraft
<1> QED
  BY <1>1, <1>2, <1>3, <1>4, <1>5
     DEF SwitchNext, ReturnStale, LaneFailed, Activate, ActivateFails, Return, NoSwitch

LEMMA MemoryStep ==
  ASSUME TypeOK, SwitchInv, MemoryInv, [Next]_vars
  PROVE  MemoryInv'
<1> USE DEF MemoryInv
<1>1. CASE LoadNext
  <2>1. HydrationInv'
    BY <1>1, HydrationLoad
  <2>2. UNCHANGED opVars
    BY <1>1 DEF LoadNext, BusChanges, GetProfiles, Stage, StageSettings, StartRefresh, FinishRefresh, CreateStates,
                SelectDevice, CheckLoaded, ReloadRecord, ReadActive, Hydrate
  <2>3. UNCHANGED acked
    BY <1>1 DEF LoadNext, BusChanges, GetProfiles, Stage, StageSettings, StartRefresh, FinishRefresh, CreateStates,
                SelectDevice, CheckLoaded, ReloadRecord, ReadActive, Hydrate, HydrateMemory, memoryVars
  <2>4. AckedInv'
    BY <2>2, <2>3 DEF AckedInv, opVars
  <2>5. ShownInv'
    <3> SUFFICES ASSUME pc # "idle", hydrated
                 PROVE  ShownInv'
      BY <2>2 DEF ShownInv, opVars
    <3>1. bound.id \in loaded /\ ~Reloading(bound.id)
      BY DEF ShownInv
    <3>2. HydratedKept(bound.id)
      BY <1>1, <3>1, LoadKeepsHydrated
    <3>3. /\ UNCHANGED <<pc, lane, bound, target, ok, hydrated>>
          /\ bound.id \in loaded' /\ ~Reloading(bound.id)'
      BY <2>2, <3>2 DEF HydratedKept, opVars
    <3>4. ASSUME NEW l \in Lanes, l < lane \/ pc \in {"save", "activate"}
          PROVE  Shown(l)'
      <4>1. Shown(l) /\ (l = OneFieldLane => lane > OneFieldLane)
        BY <3>4, LanesAreNaturals DEF ShownInv, OneFieldLane
      <4>2. CASE applied'[bound.id][l] = applied[bound.id][l]
        BY <3>2, <3>3, <4>1, <4>2 DEF HydratedKept, Shown, ShowsDraft
      <4>3. CASE applied'[bound.id][l] # applied[bound.id][l]
        BY <3>2, <3>3, <4>1, <4>3 DEF HydratedKept, Shown, ShowsDraft
      <4> QED
        BY <4>2, <4>3
    <3> QED
      BY <3>3, <3>4 DEF ShownInv, Reloading
  <2> QED
    BY <2>1, <2>4, <2>5
<1>2. CASE SwitchNext
  <2>1. HydrationInv'
    BY <1>2, SwitchKeepsLoaded DEF HydrationInv
  <2> QED
    BY <1>2, <2>1, AckedStep, ShownStep
<1>3. CASE Crash
  BY <1>3 DEF Crash, NoSwitch, HydrationInv, AckedInv, ShownInv, NoWork
<1>4. CASE UNCHANGED vars
  BY <1>4 DEF vars, memoryVars, opVars, HydrationInv, AckedInv, ShownInv, Shown, ShowsDraft, Reloading
<1> QED
  BY <1>1, <1>2, <1>3, <1>4 DEF Next

\* What RefreshInventory, SwitchProfile and the edits of a profile tell of memory:
\* a mouse is hydrated once, an acknowledged lane is completed with what was sent,
\* and a switch shows the lanes it has completed.
THEOREM MemoryInvHolds == Spec => []MemoryInv
<1>1. TypeOK /\ SwitchInv /\ MemoryInv /\ [Next]_vars => MemoryInv'
  BY MemoryStep
<1> QED
  BY <1>1, MemoryInit, TypeCorrect, SwitchInvHolds, PTL DEF Spec

\* Once a mouse is hydrated, memory changes only to what it acknowledged or to a
\* setting staged in its one field, and a staged edit gives way only to the former.
THEOREM MemoryFollows == Spec => MemoryFollowsAcks
<1>1. TypeOK /\ SwitchInv /\ MemoryInv /\ [Next]_vars
        => [\A d \in loaded \cap loaded', l \in Lanes :
              ~Reloading(d) =>
                /\ applied'[d][l] # applied[d][l] => applied'[d][l] = acked[d][l] \/ ShowsDraft(d, l)'
                /\ pending[d][l] = Draft /\ pending'[d][l] # Draft =>
                     applied'[d][l] = pending'[d][l] /\ acked[d][l] = pending'[d][l]]_vars
  <2> SUFFICES ASSUME TypeOK, SwitchInv, MemoryInv, [Next]_vars,
                      NEW d \in loaded \cap loaded', NEW l \in Lanes, ~Reloading(d)
               PROVE  /\ applied'[d][l] # applied[d][l] => applied'[d][l] = acked[d][l] \/ ShowsDraft(d, l)'
                      /\ pending[d][l] = Draft /\ pending'[d][l] # Draft =>
                           applied'[d][l] = pending'[d][l] /\ acked[d][l] = pending'[d][l]
    OBVIOUS
  <2>1. CASE LoadNext
    BY <2>1, LoadKeepsHydrated DEF HydratedKept, MemoryInv
  <2>2. CASE CompleteLane
    <3>1. /\ applied' = [applied EXCEPT ![bound.id][lane] = target]
          /\ pending' = [pending EXCEPT ![bound.id][lane] = target]
          /\ bound.id \in Devices
      BY <2>2 DEF CompleteLane, LaneConfirmed, ShowLane, SwitchInv, Bindings
    <3>2. acked[bound.id][lane] = target
      BY <2>2 DEF CompleteLane, LaneConfirmed, MemoryInv, AckedInv
    <3>3. d \in Devices
      BY DEF TypeOK
    <3>4. CASE d = bound.id /\ l = lane
      BY <3>1, <3>2, <3>4 DEF TypeOK
    <3>5. CASE ~(d = bound.id /\ l = lane)
      BY <3>1, <3>3, <3>5 DEF TypeOK
    <3> QED
      BY <3>4, <3>5
  <2>3. CASE SwitchNext /\ ~CompleteLane
    BY <2>3, SwitchKeepsLoaded
  <2>4. CASE Crash
    BY <2>4 DEF Crash
  <2>5. CASE UNCHANGED vars
    BY <2>5 DEF vars, memoryVars
  <2> QED
    BY <2>1, <2>2, <2>3, <2>4, <2>5 DEF Next
<1> QED
  BY <1>1, TypeCorrect, SwitchInvHolds, MemoryInvHolds, PTL DEF Spec, MemoryFollowsAcks

\* A switch of a hydrated mouse that reports success shows the target on every lane,
\* but for a sleep time or a debounce staged after its lane was completed.
THEOREM SwitchIsShown == Spec => HydratedSwitchShown
<1>1. TypeOK /\ SwitchInv /\ MemoryInv /\ [Next]_vars
        => [\A d \in Devices : hydrated /\ reported[d] # "applied" /\ reported'[d] = "applied" =>
              \A l \in Lanes : applied'[d][l] = active'[d] \/ (restaged /\ ShowsDraft(d, l)')]_vars
  <2> SUFFICES ASSUME TypeOK, SwitchInv, MemoryInv, [Next]_vars, NEW d \in Devices,
                      hydrated, reported[d] # "applied", reported'[d] = "applied", NEW l \in Lanes
               PROVE  applied'[d][l] = active'[d] \/ (restaged /\ ShowsDraft(d, l)')
    OBVIOUS
  <2>1. Activate
    <3>1. CASE LoadNext
      BY <3>1 DEF LoadNext, BusChanges, GetProfiles, Stage, StageSettings, StartRefresh, FinishRefresh,
                  CreateStates, SelectDevice, CheckLoaded, ReloadRecord, ReadActive, Hydrate
    <3>2. ASSUME NEW p \in Profiles, BeginSwitch(p)
          PROVE  FALSE
      BY <3>2 DEF BeginSwitch, TypeOK
    <3>3. CASE ReturnStale \/ LaneFailed \/ ActivateFails
      BY <3>3 DEF ReturnStale, LaneFailed, ActivateFails, Return, TypeOK
    <3>4. CASE Gate \/ Call \/ Send \/ SendFails \/ Ack \/ AckNeverComes \/ CompleteLane \/ SaveRecord
      BY <3>4 DEF Gate, Call, Send, SendFails, Ack, AckNeverComes, CompleteLane, SaveRecord
    <3>5. ~Crash /\ ~UNCHANGED vars
      BY DEF Crash, vars
    <3> QED
      BY <3>1, <3>2, <3>3, <3>4, <3>5 DEF Next, SwitchNext
  <2>2. /\ pc = "activate" /\ bound.id \in Devices
        /\ active' = [active EXCEPT ![bound.id] = target]
        /\ reported' = [reported EXCEPT ![bound.id] = "applied"]
        /\ applied' = applied
    BY <2>1 DEF Activate, Return, NoSwitch, SwitchedIndex, SwitchInv, Bindings, memoryVars
  <2>3. d = bound.id /\ active'[d] = target
    BY <2>2 DEF TypeOK
  <2> QED
    BY <2>2, <2>3 DEF MemoryInv, ShownInv, Shown, ShowsDraft
<1> QED
  BY <1>1, TypeCorrect, SwitchInvHolds, MemoryInvHolds, PTL DEF Spec, HydratedSwitchShown
=============================================================================
