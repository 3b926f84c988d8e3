-------------------------- MODULE VaultFileProofs --------------------------
(* Theorems about VaultFile, for any number of processes, credentials and   *)
(* operations: that slots agree, that the owner can open the vault, and     *)
(* that operations which do not overlap lose nothing.                       *)
EXTENDS VaultFile, TLAPS

(* A file whose slots all wrap the key of its payload.  A V3 file never     *)
(* gets another key than the one it was made with: that is why a recovery   *)
(* may deliver a key that was read long ago.  Nor does it lose slot 0.      *)
Agrees(f) ==
  /\ \A i \in 0 .. 2 : f.slots[i] # None => f.slots[i].key = f.seal
  /\ f.ver = "v3" => /\ f.seal = FirstKey
                     /\ f.slots[0] # None /\ f.slots[0].cred \in Pins

(* The invariant also speaks of what is about to be written. *)
KeysInv ==
  /\ Agrees(vault) /\ Agrees(temp)
  /\ \A p \in Procs : Agrees(out[p])
  /\ session \in {None, FirstKey}

(* Saved, Wrap and the initial files keep to the type of a file. *)
LEMMA BareAgrees ==
  ASSUME NEW v \in {"none", "empty"}
  PROVE  Bare(v) \in Content /\ Agrees(Bare(v))
  BY VaultAssumption DEF Bare, Content, NoSlots, Agrees

LEMMA SlotOfType ==
  ASSUME NEW c
  PROVE  SlotOf(c) \in 0 .. 2
  BY DEF SlotOf

LEMMA WrapType ==
  ASSUME NEW s \in [0 .. 2 -> Slot \cup {None}], NEW i \in 0 .. 2,
         NEW c \in Creds, NEW k \in Keys
  PROVE  /\ Wrap(s, i, c, k) \in [0 .. 2 -> Slot \cup {None}]
         /\ Wrap(s, i, c, k)[i].key = k
         /\ \A j \in 0 .. 2 : j # i => Wrap(s, i, c, k)[j] = s[j]
  BY DEF Wrap, Slot

\* Wrapping for a credential makes slots it unlocks.
LEMMA WrapUnlocks ==
  ASSUME NEW s \in [0 .. 2 -> Slot \cup {None}], NEW c \in Creds, NEW k \in Keys
  PROVE  /\ Wrap(s, SlotOf(c), c, k)[SlotOf(c)] # None
         /\ Wrap(s, SlotOf(c), c, k)[SlotOf(c)].cred = c
         /\ Wrap(s, SlotOf(c), c, k)[SlotOf(c)].key = k
<1>1. SlotOf(c) \in 0 .. 2
  BY SlotOfType
<1>2. Wrap(s, SlotOf(c), c, k)[SlotOf(c)] = [cred |-> c, key |-> k]
  BY <1>1 DEF Wrap
<1>3. [cred |-> c, key |-> k] \in [cred : Pins \cup AdminKeys \cup {Dev}, key : Keys]
  BY DEF Creds
<1>4. Wrap(s, SlotOf(c), c, k)[SlotOf(c)] # None
  BY <1>2, <1>3, VaultAssumption
<1>5. QED
  BY <1>2, <1>4

\* Wrapping for another slot leaves the passphrase's alone.
LEMMA WrapKeepsFirst ==
  ASSUME NEW s \in [0 .. 2 -> Slot \cup {None}], NEW i \in {1, 2},
         NEW c \in Creds, NEW k \in Keys
  PROVE  Wrap(s, i, c, k) \in [0 .. 2 -> Slot \cup {None}] /\ Wrap(s, i, c, k)[0] = s[0]
<1>1. i \in 0 .. 2 /\ 0 \in 0 .. 2 /\ 0 # i
  OBVIOUS
<1>2. Wrap(s, i, c, k) \in [0 .. 2 -> Slot \cup {None}]
  BY <1>1, WrapType
<1>3. \A j \in 0 .. 2 : j # i => Wrap(s, i, c, k)[j] = s[j]
  BY <1>1, WrapType
<1>4. QED
  BY <1>1, <1>2, <1>3

\* Wrapping for a passphrase fills slot 0.
LEMMA WrapPin ==
  ASSUME NEW s \in [0 .. 2 -> Slot \cup {None}], NEW new \in Pins, NEW k \in Keys
  PROVE  /\ Wrap(s, 0, new, k) \in [0 .. 2 -> Slot \cup {None}]
         /\ Wrap(s, 0, new, k)[0] # None
         /\ Wrap(s, 0, new, k)[0].cred = new /\ Wrap(s, 0, new, k)[0].key = k
<1>1. SlotOf(new) = 0 /\ new \in Creds /\ 0 \in 0 .. 2
  BY DEF SlotOf, Creds
<1>2. /\ Wrap(s, SlotOf(new), new, k)[SlotOf(new)] # None
      /\ Wrap(s, SlotOf(new), new, k)[SlotOf(new)].cred = new
      /\ Wrap(s, SlotOf(new), new, k)[SlotOf(new)].key = k
  BY <1>1, WrapUnlocks
<1>3. Wrap(s, 0, new, k) \in [0 .. 2 -> Slot \cup {None}]
  BY <1>1, WrapType
<1>4. QED
  BY <1>1, <1>2, <1>3

(* Slots that all wrap key k, if anything; wrapping it once more keeps that. *)
AllWrap(s, k) ==
  /\ s \in [0 .. 2 -> Slot \cup {None}]
  /\ \A i \in 0 .. 2 : s[i] # None => s[i].key = k

LEMMA WrapKeeps ==
  ASSUME NEW s, NEW i \in 0 .. 2, NEW c \in Creds, NEW k \in Keys, AllWrap(s, k)
  PROVE  AllWrap(Wrap(s, i, c, k), k)
  <1>1. s \in [0 .. 2 -> Slot \cup {None}]
    BY DEF AllWrap
  <1> DEFINE w == Wrap(s, i, c, k)
  <1>2. /\ w \in [0 .. 2 -> Slot \cup {None}] /\ w[i].key = k
        /\ \A j \in 0 .. 2 : j # i => w[j] = s[j]
    BY <1>1, WrapType
  <1> HIDE DEF w
  <1>3. AllWrap(w, k)
    BY <1>2 DEF AllWrap
  <1> QED BY <1>3 DEF w

LEMMA UnlocksType ==
  ASSUME NEW f \in Content, NEW c, Unlocks(f, c)
  PROVE  /\ KeyFor(f, c) \in Keys
         /\ Agrees(f) => KeyFor(f, c) = f.seal
  <1>1. SlotOf(c) \in 0 .. 2
    BY SlotOfType
  <1>2. f.slots[SlotOf(c)] \in Slot
    BY <1>1 DEF Content, Unlocks
  <1> QED
    BY <1>1, <1>2 DEF Unlocks, KeyFor, Agrees, Slot

(* save leaves a file whose slots agree, provided those it found did. *)
LEMMA SavedAgrees ==
  ASSUME NEW f \in Content, NEW c \in Creds, NEW es \in SUBSET Entries,
         CanSave(f, c), KeyLeft, Agrees(f)
  PROVE  Saved(f, c, es) \in Content /\ Agrees(Saved(f, c, es))
  <1> DEFINE i == SlotOf(c)
  <1>1. i \in 0 .. 2
    BY SlotOfType
  <1>2. CASE f.ver \in {"v2", "v3"}
    <2>1. Unlocks(f, c)
      BY <1>2 DEF CanSave
    <2>2. KeyFor(f, c) \in Keys /\ KeyFor(f, c) = f.seal
      BY <2>1, UnlocksType
    <2> DEFINE w == Wrap(f.slots, i, c, KeyFor(f, c))
    <2>3. f.slots \in [0 .. 2 -> Slot \cup {None}]
      BY DEF Content
    <2>4. w \in [0 .. 2 -> Slot \cup {None}] /\ w[i].key = f.seal
          /\ \A j \in 0 .. 2 : j # i => w[j] = f.slots[j]
      BY <1>1, <2>2, <2>3, WrapType
    <2>5. Saved(f, c, es) = [f EXCEPT !.slots = w, !.seal = KeyFor(f, c), !.entries = es]
      BY <1>2 DEF Saved
    <2>6. w[i] # None /\ w[i].cred = c
      BY <2>2, <2>3, WrapUnlocks
    <2>7. i = 0 => c \in Pins
      BY DEF SlotOf
    <2> HIDE DEF w, i
    <2>8. f.ver = "v3" => w[0] # None /\ w[0].cred \in Pins
      <3>1. CASE i = 0
        BY <2>6, <2>7, <3>1
      <3>2. CASE i # 0
        BY <2>4, <3>2 DEF Agrees
      <3> QED BY <3>1, <3>2
    <2>9. Saved(f, c, es) \in Content
      BY <2>2, <2>4, <2>5 DEF Content
    <2>10. Agrees(Saved(f, c, es))
      BY <2>2, <2>4, <2>5, <2>8 DEF Agrees, Content
    <2> QED BY <2>9, <2>10
  <1>3. CASE f.ver \notin {"v2", "v3"}
    <2> DEFINE k == IF f.ver = "v1" /\ Unlocks(f, c) THEN KeyFor(f, c) ELSE Fresh
               w == Wrap(NoSlots, i, c, k)
    <2>1. Fresh \in Keys
      BY DEF Fresh, KeyLeft
    <2>2. k \in Keys
      BY <2>1, UnlocksType
    <2>3. NoSlots \in [0 .. 2 -> Slot \cup {None}] /\ \A j \in 0 .. 2 : NoSlots[j] = None
      BY DEF NoSlots
    <2> HIDE DEF k
    <2>4. w \in [0 .. 2 -> Slot \cup {None}] /\ w[i].key = k
          /\ \A j \in 0 .. 2 : j # i => w[j] = None
      BY <1>1, <2>2, <2>3, WrapType
    <2>5. Saved(f, c, es) = [ver |-> "v2", slots |-> w, seal |-> k, entries |-> es]
      BY <1>3 DEF Saved, k
    <2> HIDE DEF w, i
    <2>6. Saved(f, c, es) \in Content /\ Agrees(Saved(f, c, es))
      BY <2>2, <2>4, <2>5 DEF Agrees, Content, Real
    <2> QED BY <2>6
  <1> QED BY <1>2, <1>3
-----------------------------------------------------------------------------
(* So do the files there can be at first. *)
LEMMA FirstAgrees ==
  \A f \in FirstVaults : f \in Content /\ Agrees(f)
  <1> DEFINE pin == CHOOSE c \in Pins : TRUE
             s0 == Wrap(NoSlots, 0, pin, FirstKey)
             s1 == Wrap(s0, 1, Exported, FirstKey)
             s2 == Wrap(s1, 2, Dev, FirstKey)
             File(v, s) == [ver |-> v, slots |-> s, seal |-> FirstKey, entries |-> {}]
  <1>1. /\ pin \in Pins /\ pin \in Creds /\ FirstKey \in Keys
        /\ Exported \in Creds /\ Dev \in Creds
        /\ NoSlots \in [0 .. 2 -> Slot \cup {None}]
    BY VaultAssumption DEF Creds, NoSlots
  <1>2. AllWrap(NoSlots, FirstKey)
    BY DEF NoSlots, AllWrap
  <1> HIDE DEF pin
  <1>3. AllWrap(s0, FirstKey) /\ s0[0] # None /\ s0[0].cred = pin
    BY <1>1, <1>2, WrapKeeps, WrapPin
  <1> HIDE DEF s0
  <1>4. AllWrap(s1, FirstKey) /\ s1[0] = s0[0]
    <2>1. s0 \in [0 .. 2 -> Slot \cup {None}]
      BY <1>3 DEF AllWrap
    <2>2. s1[0] = s0[0]
      BY <1>1, <2>1, WrapKeepsFirst
    <2>3. AllWrap(s1, FirstKey)
      <3>1. Exported \in Creds /\ FirstKey \in Keys /\ AllWrap(s0, FirstKey) /\ 1 \in 0 .. 2
        BY <1>1, <1>3
      <3> QED BY <3>1, WrapKeeps
    <2> QED BY <2>2, <2>3
  <1> HIDE DEF s1
  <1>5. AllWrap(s2, FirstKey) /\ s2[0] = s0[0]
    <2>1. s1 \in [0 .. 2 -> Slot \cup {None}]
      BY <1>4 DEF AllWrap
    <2>2. s2[0] = s1[0]
      BY <1>1, <2>1, WrapKeepsFirst
    <2> QED BY <1>1, <1>4, <2>2, WrapKeeps
  <1> HIDE DEF s2
  <1>6. ASSUME NEW v \in Real, NEW s, AllWrap(s, FirstKey), s[0] # None, s[0].cred = pin
        PROVE  File(v, s) \in Content /\ Agrees(File(v, s))
    BY <1>1, <1>6 DEF Content, Agrees, Real, AllWrap
  <1>7. Missing \in Content /\ Agrees(Missing)
    BY BareAgrees DEF Missing
  <1>8. FirstVaults = {Missing, File("v1", s0), File("v2", s0), File("v2", s1),
                       File("v3", s1), File("v3", s2)}
    BY DEF FirstVaults, s2, s1, s0, pin
  <1> HIDE DEF File
  <1> QED
    BY <1>3, <1>4, <1>5, <1>6, <1>7, <1>8 DEF Real

Pcs == {"idle", "loaded", "opening", "writing", "verifying", "renaming", "keyfile",
        "keywriting", "cleanup"}

(* What the operations in hand have to satisfy. *)
OpTypes ==
  /\ pc \in [Procs -> Pcs]
  /\ op \in [Procs -> Operation \cup {None}]
  /\ \A p \in Procs : pc[p] # "idle" => op[p] \in Operation
  /\ \A p \in Procs : pc[p] = "loaded" /\ op[p].kind = "rotate_passphrase"
                         => op[p].new \in Pins
  /\ \A p \in Procs : pc[p] # "idle" /\ op[p].kind = "apply" => op[p].cred \in AdminKeys
  /\ \A p \in Procs : pc[p] \in {"keyfile", "keywriting", "cleanup"} => op[p].kind = "apply"
  /\ \A p \in Procs : pc[p] = "loaded" /\ op[p].kind = "set" => op[p].name \in Names

(* The part of TypeOK the keys depend on. *)
FileTypes ==
  /\ vault \in Content /\ temp \in Content
  /\ keyFile \in AdminKeys \cup {None}
  /\ OpTypes
  /\ mem \in [Procs -> SUBSET Entries]
  /\ out \in [Procs -> Content]

VInv == FileTypes /\ KeysInv

LEMMA InitVInv ==
  ASSUME Init
  PROVE  VInv
  <1>1. vault \in Content /\ Agrees(vault)
    BY FirstAgrees DEF Init
  <1>2. Missing \in Content /\ Agrees(Missing)
    BY BareAgrees DEF Missing
  <1>3. keyFile \in AdminKeys \cup {None}
    BY VaultAssumption DEF Init
  <1>4. KeysInv
    BY <1>1, <1>2 DEF Init, KeysInv
  <1>5. FileTypes
    BY <1>1, <1>2, <1>3 DEF Init, FileTypes, OpTypes, Pcs
  <1> QED BY <1>4, <1>5 DEF VInv
-----------------------------------------------------------------------------
(* Ending an operation, moving it on past its load, and beginning one. *)
LEMMA EndTypes ==
  ASSUME VInv, NEW p \in Procs, End(p)
  PROVE  /\ OpTypes'
         /\ mem' \in [Procs -> SUBSET Entries] /\ out' \in [Procs -> Content]
         /\ \A q \in Procs : Agrees(out'[q])
  <1>1. Missing \in Content /\ Agrees(Missing)
    BY BareAgrees DEF Missing
  <1>2. OpTypes'
    BY DEF VInv, FileTypes, End, OpTypes, Pcs
  <1>3. mem' \in [Procs -> SUBSET Entries] /\ out' \in [Procs -> Content]
    BY <1>1 DEF VInv, FileTypes, End
  <1>4. \A q \in Procs : Agrees(out'[q])
    <2> SUFFICES ASSUME NEW q \in Procs PROVE Agrees(out'[q])
      OBVIOUS
    <2>1. out'[q] = Missing \/ out'[q] = out[q]
      BY DEF VInv, FileTypes, End
    <2> QED BY <1>1, <2>1 DEF VInv, KeysInv
  <1> QED BY <1>2, <1>3, <1>4

LEMMA MoveTypes ==
  ASSUME VInv, NEW p \in Procs, NEW at \in Pcs \ {"loaded"}, pc[p] # "idle",
         at \in {"keyfile", "keywriting", "cleanup"} => op[p].kind = "apply",
         pc' = [pc EXCEPT ![p] = at], UNCHANGED op
  PROVE  OpTypes'
  BY DEF VInv, FileTypes, OpTypes, Pcs

LEMMA BeginTypes ==
  ASSUME VInv, NEW p \in Procs, NEW o \in Operation, NEW at \in {"loaded", "opening"},
         op' = [op EXCEPT ![p] = o], pc' = [pc EXCEPT ![p] = at],
         o.kind = "apply" => o.cred \in AdminKeys,
         at = "loaded" => /\ o.kind = "rotate_passphrase" => o.new \in Pins
                          /\ o.kind = "set" => o.name \in Names
  PROVE  OpTypes'
  BY DEF VInv, FileTypes, OpTypes, Pcs

(* Content that is put into out[p]. *)
LEMMA OutTypes ==
  ASSUME VInv, NEW p \in Procs, NEW f \in Content, Agrees(f),
         out' = [out EXCEPT ![p] = f]
  PROVE  out' \in [Procs -> Content] /\ \A q \in Procs : Agrees(out'[q])
  <1>1. out' \in [Procs -> Content]
    BY DEF VInv, FileTypes
  <1>2. ASSUME NEW q \in Procs PROVE Agrees(out'[q])
    <2>1. out'[q] = f \/ out'[q] = out[q]
      BY DEF VInv, FileTypes
    <2> QED BY <2>1 DEF VInv, KeysInv
  <1> QED BY <1>1, <1>2

(* New slots over an old payload. *)
LEMMA RewrapAgrees ==
  ASSUME NEW f \in Content, Agrees(f), NEW s, AllWrap(s, f.seal),
         s[0] # None, s[0].cred \in Pins
  PROVE  [f EXCEPT !.slots = s] \in Content /\ Agrees([f EXCEPT !.slots = s])
  BY DEF Content, Agrees, AllWrap

(* What save is given, once the vault is loaded. *)
LEMMA LoadedTypes ==
  ASSUME VInv, NEW p \in Procs, pc[p] = "loaded"
  PROVE  WriteCred(p) \in Creds /\ Edited(p) \in SUBSET Entries
  <1>1. /\ op[p] \in Operation
        /\ op[p].kind = "rotate_passphrase" => op[p].new \in Pins
        /\ op[p].kind = "set" => op[p].name \in Names
        /\ mem[p] \in SUBSET Entries
    BY DEF VInv, FileTypes, OpTypes
  <1>2. WriteCred(p) \in Creds
    BY <1>1 DEF WriteCred, Operation, Creds
  <1>3. Edited(p) \in SUBSET Entries
    BY <1>1 DEF Edited, Entries
  <1> QED BY <1>2, <1>3
-----------------------------------------------------------------------------
(* Every step keeps the invariant, action by action. *)
LEMMA StepVInv ==
  ASSUME VInv, [Next]_vars
  PROVE  VInv'
  <1>0. /\ vault \in Content /\ temp \in Content /\ keyFile \in AdminKeys \cup {None}
        /\ mem \in [Procs -> SUBSET Entries] /\ out \in [Procs -> Content]
        /\ OpTypes
        /\ Agrees(vault) /\ Agrees(temp) /\ session \in {None, FirstKey}
        /\ \A q \in Procs : Agrees(out[q])
    BY DEF VInv, FileTypes, KeysInv
  <1>b. /\ Missing \in Content /\ Agrees(Missing)
        /\ Short \in Content /\ Agrees(Short)
    BY BareAgrees DEF Missing, Short
  (* What has to be shown of a step. *)
  <1>q. ASSUME OpTypes',
               mem' \in [Procs -> SUBSET Entries], out' \in [Procs -> Content],
               \A q \in Procs : Agrees(out'[q]),
               vault' \in Content, Agrees(vault'), temp' \in Content, Agrees(temp'),
               keyFile' \in AdminKeys \cup {None}, session' \in {None, FirstKey}
        PROVE  VInv'
    BY <1>q DEF VInv, FileTypes, KeysInv, Agrees
  <1>1. ASSUME NEW p \in Procs, LoadVault(p)
        PROVE  VInv'
    <2>1. \E o \in Operation :
             /\ o.kind = "rotate_passphrase" => o.new \in Pins
             /\ o.kind = "set" => o.name \in Names
             /\ o.kind # "apply"
             /\ op' = [op EXCEPT ![p] = o]
      <3>1. PICK c \in Held : \E o \in
                 {Op(kind, c, None, n) : kind \in {"set", "delete"}, n \in Names}
                 \cup {Op("rotate_passphrase", c, new, None) : new \in Pins \ {c}}
                 \cup {Op("rotate_column_key", c, None, None)} : Begin(p, o)
        BY <1>1 DEF LoadVault
      <3>2. c \in Creds
        BY <1>0 DEF Held, Creds
      <3>3. CASE \E kind \in {"set", "delete"}, n \in Names : Begin(p, Op(kind, c, None, n))
        BY <3>2, <3>3 DEF Op, Operation, Changes, Begin
      <3>4. CASE \E new \in Pins : Begin(p, Op("rotate_passphrase", c, new, None))
        BY <3>2, <3>4 DEF Op, Operation, Changes, Rotations, Begin
      <3>5. CASE Begin(p, Op("rotate_column_key", c, None, None))
        BY <3>2, <3>5 DEF Op, Operation, Changes, Rotations, Begin
      <3> QED BY <3>1, <3>3, <3>4, <3>5
    <2>2. /\ mem' = [mem EXCEPT ![p] = vault.entries]
          /\ pc' = [pc EXCEPT ![p] = "loaded"]
          /\ UNCHANGED <<files, out>>
      BY <1>1 DEF LoadVault
    <2>3. OpTypes'
      BY <2>1, <2>2, BeginTypes
    <2>4. mem' \in [Procs -> SUBSET Entries]
      BY <1>0, <2>2 DEF Content
    <2> QED BY <1>0, <1>q, <2>2, <2>3, <2>4 DEF files
  <1>2. ASSUME NEW p \in Procs, BeginInit(p)
        PROVE  VInv'
    <2>1. PICK c \in Pins :
             /\ Begin(p, Op("init", c, None, None))
             /\ mem' = [mem EXCEPT ![p] = {}]
             /\ pc' = [pc EXCEPT ![p] = "loaded"]
             /\ UNCHANGED <<files, out, fd>>
      BY <1>2 DEF BeginInit
    <2> DEFINE o == Op("init", c, None, None)
    <2>2. /\ o \in Operation /\ o.kind = "init"
      BY DEF Op, Operation, Changes, Creds
    <2>3. op' = [op EXCEPT ![p] = o]
      BY <2>1 DEF Begin
    <2> HIDE DEF o
    <2>4. OpTypes'
      BY <2>1, <2>2, <2>3, BeginTypes
    <2>5. mem' \in [Procs -> SUBSET Entries]
      BY <1>0, <2>1
    <2> QED BY <1>0, <1>q, <2>1, <2>4, <2>5 DEF files
  <1>3. ASSUME NEW p \in Procs, PrepareSave(p)
        PROVE  VInv'
    <2> DEFINE f == Saved(Before(p), WriteCred(p), Edited(p))
    <2>1. Before(p) \in Content /\ Agrees(Before(p))
      BY <1>0 DEF Before
    <2>2. WriteCred(p) \in Creds /\ Edited(p) \in SUBSET Entries
      BY <1>3, LoadedTypes DEF PrepareSave
    <2>3. f \in Content /\ Agrees(f)
      BY <1>3, <2>1, <2>2, SavedAgrees DEF PrepareSave
    <2>4. /\ out' = [out EXCEPT ![p] = f]
          /\ pc[p] = "loaded" /\ pc' = [pc EXCEPT ![p] = "opening"]
          /\ UNCHANGED <<files, op, mem>>
      BY <1>3 DEF PrepareSave
    <2> HIDE DEF f
    <2>5. out' \in [Procs -> Content] /\ \A q \in Procs : Agrees(out'[q])
      BY <2>3, <2>4, OutTypes
    <2>6. OpTypes'
      BY <2>4, MoveTypes DEF Pcs
    <2> QED BY <1>0, <1>q, <2>4, <2>5, <2>6 DEF files
  <1>4. ASSUME NEW p \in Procs, SaveRefused(p)
        PROVE  VInv'
    BY <1>0, <1>4, <1>q, EndTypes DEF SaveRefused, files
  <1>5. ASSUME NEW p \in Procs, RecoverPassphrase(p)
        PROVE  VInv'
    <2> DEFINE a == keyFile
    <2>1. PICK new \in Pins :
             /\ a \in AdminKeys /\ Unlocks(vault, a)
             /\ Begin(p, Op("recover", a, new, None))
             /\ out' = [out EXCEPT ![p] = [vault EXCEPT
                          !.slots = Wrap(vault.slots, 0, new, KeyFor(vault, a))]]
             /\ pc' = [pc EXCEPT ![p] = "opening"]
             /\ UNCHANGED <<files, mem>>
      BY <1>0, <1>5 DEF RecoverPassphrase
    <2> HIDE DEF a
    <2> DEFINE o == Op("recover", a, new, None)
               s == Wrap(vault.slots, 0, new, KeyFor(vault, a))
    <2>2. o \in Operation /\ op' = [op EXCEPT ![p] = o] /\ o.kind # "apply"
      BY <2>1 DEF Op, Operation, Changes, Creds, Begin
    <2>3. OpTypes'
      <3> HIDE DEF o
      <3> QED BY <2>1, <2>2, BeginTypes
    <2>4. KeyFor(vault, a) = vault.seal /\ vault.seal \in Keys
      BY <1>0, <2>1, UnlocksType DEF Content
    <2>5. AllWrap(vault.slots, vault.seal)
      BY <1>0 DEF AllWrap, Agrees, Content
    <2>6. AllWrap(s, vault.seal)
      <3>1. s = Wrap(vault.slots, 0, new, vault.seal)
        BY <2>4
      <3>2. new \in Creds
        BY DEF Creds
      <3>3. AllWrap(Wrap(vault.slots, 0, new, vault.seal), vault.seal)
        BY <2>4, <2>5, <3>2, WrapKeeps
      <3> QED BY <3>1, <3>3
    <2>f. s[0] # None /\ s[0].cred \in Pins
      BY <2>4, <2>5, WrapPin DEF AllWrap
    <2> HIDE DEF s
    <2>7. [vault EXCEPT !.slots = s] \in Content /\ Agrees([vault EXCEPT !.slots = s])
      BY <1>0, <2>6, <2>f, RewrapAgrees
    <2>8. out' = [out EXCEPT ![p] = [vault EXCEPT !.slots = s]]
      BY <2>1 DEF s
    <2>9. out' \in [Procs -> Content] /\ \A q \in Procs : Agrees(out'[q])
      BY <2>7, <2>8, OutTypes
    <2> QED BY <1>0, <1>q, <2>1, <2>3, <2>9 DEF files
  <1>6. ASSUME NEW p \in Procs, RequestRecovery(p)
        PROVE  VInv'
    <2>1. session' = FirstKey
      BY <1>0, <1>6 DEF RequestRecovery, Agrees
    <2>2. UNCHANGED <<vault, temp, keyFile, pc, op, mem, out>>
      BY <1>6 DEF RequestRecovery, local
    <2>3. OpTypes'
      BY <1>0, <2>2 DEF OpTypes
    <2> QED BY <1>0, <1>q, <2>1, <2>2, <2>3
  <1>7. ASSUME NEW p \in Procs, ApplyRecovery(p)
        PROVE  VInv'
    <2>1. PICK new \in Pins :
             /\ session # None /\ vault.ver = "v3" /\ AdminKeyLeft
             /\ Begin(p, Op("apply", FreshAdminKey, new, None))
             /\ LET users == Wrap(Wrap(vault.slots, 0, new, session), 1, FreshAdminKey, session)
                IN  out' = [out EXCEPT ![p] = [vault EXCEPT !.slots =
                      IF vault.slots[2] = None THEN users ELSE Wrap(users, 2, Dev, session)]]
             /\ pc' = [pc EXCEPT ![p] = "opening"]
             /\ UNCHANGED <<files, mem>>
      BY <1>7 DEF ApplyRecovery
    <2>a. FreshAdminKey \in AdminKeys
      BY <2>1 DEF FreshAdminKey, AdminKeyLeft
    <2> DEFINE a == FreshAdminKey
               o == Op("apply", a, new, None)
               s0 == Wrap(vault.slots, 0, new, session)
               s1 == Wrap(s0, 1, a, session)
               s2 == Wrap(s1, 2, Dev, session)
               s == IF vault.slots[2] = None THEN s1 ELSE s2
    <2>2. o \in Operation /\ op' = [op EXCEPT ![p] = o] /\ o.cred \in AdminKeys
      BY <2>1, <2>a DEF Op, Operation, Changes, Creds, Begin
    <2>3. OpTypes'
      <3> HIDE DEF o
      <3> QED BY <2>1, <2>2, BeginTypes
    <2>4. session = vault.seal /\ session \in Keys
      BY <1>0, <2>1, VaultAssumption DEF Agrees
    <2>5. AllWrap(vault.slots, session)
      BY <1>0, <2>4 DEF AllWrap, Agrees, Content
    <2>6. new \in Creds /\ a \in Creds /\ Dev \in Creds
      BY <2>a DEF Creds
    <2>7. AllWrap(s0, session) /\ s0[0] # None /\ s0[0].cred = new
      <3>1. AllWrap(s0, session)
        BY <2>4, <2>5, <2>6, WrapKeeps
      <3>2. s0[0] # None /\ s0[0].cred = new
        BY <2>4, <2>5, WrapPin DEF AllWrap
      <3> QED BY <3>1, <3>2
    <2>8. AllWrap(s1, session) /\ s1[0] = s0[0]
      <3> HIDE DEF s0, a
      <3>1. s0 \in [0 .. 2 -> Slot \cup {None}]
        BY <2>7 DEF AllWrap
      <3>2. s1[0] = s0[0]
        BY <2>4, <2>6, <3>1, WrapKeepsFirst
      <3> QED BY <2>4, <2>6, <2>7, <3>2, WrapKeeps
    <2>9. AllWrap(s2, session) /\ s2[0] = s0[0]
      <3> HIDE DEF s1
      <3>1. s1 \in [0 .. 2 -> Slot \cup {None}]
        BY <2>8 DEF AllWrap
      <3>2. s2[0] = s1[0]
        BY <2>4, <2>6, <3>1, WrapKeepsFirst
      <3> QED BY <2>4, <2>6, <2>8, <3>2, WrapKeeps
    <2>10. out' = [out EXCEPT ![p] = [vault EXCEPT !.slots = s]]
      BY <2>1
    <2> HIDE DEF s0, s1, s2
    <2>11. AllWrap(s, vault.seal) /\ s[0] # None /\ s[0].cred \in Pins
      BY <2>4, <2>7, <2>8, <2>9
    <2> HIDE DEF s
    <2>12. [vault EXCEPT !.slots = s] \in Content /\ Agrees([vault EXCEPT !.slots = s])
      BY <1>0, <2>11, RewrapAgrees
    <2>13. out' \in [Procs -> Content] /\ \A q \in Procs : Agrees(out'[q])
      BY <2>10, <2>12, OutTypes
    <2> QED BY <1>0, <1>q, <2>1, <2>3, <2>13 DEF files
  <1>8. ASSUME NEW p \in Procs, OpenFile(p)
        PROVE  VInv'
    <2>1. OpTypes'
      BY <1>8, MoveTypes DEF OpenFile, Pcs
    <2>2. vault' \in Content /\ Agrees(vault') /\ temp' \in Content /\ Agrees(temp')
      BY <1>0, <1>b, <1>8 DEF OpenFile
    <2> QED BY <1>0, <1>8, <1>q, <2>1, <2>2 DEF OpenFile
  <1>9. ASSUME NEW p \in Procs, WriteFile(p)
        PROVE  VInv'
    <2>1. vault' \in {vault, out[p]} /\ temp' \in {temp, out[p]}
      BY <1>9 DEF WriteFile
    <2>2. vault' \in Content /\ Agrees(vault') /\ temp' \in Content /\ Agrees(temp')
      BY <1>0, <2>1
    <2>3. UNCHANGED <<session, keyFile>>
      BY <1>9 DEF WriteFile
    <2>4. CASE End(p)
      BY <1>0, <1>q, <2>2, <2>3, <2>4, EndTypes
    <2>5. CASE /\ \E at \in Pcs \ {"loaded"} :
                    /\ pc' = [pc EXCEPT ![p] = at]
                    /\ at \in {"keyfile", "keywriting", "cleanup"} => op[p].kind = "apply"
               /\ UNCHANGED <<op, mem, out>>
      <3>1. pc[p] # "idle"
        BY <1>9 DEF WriteFile
      <3>2. OpTypes'
        BY <2>5, <3>1, MoveTypes
      <3> QED BY <1>0, <1>q, <2>2, <2>3, <2>5, <3>2
    <2> QED BY <1>9, <2>4, <2>5 DEF WriteFile, Pcs
  <1>10. ASSUME NEW p \in Procs, Verify(p)
         PROVE  VInv'
    <2>1. OpTypes'
      BY <1>10, MoveTypes DEF Verify, Pcs
    <2> QED BY <1>0, <1>10, <1>q, <2>1 DEF Verify, files
  <1>11. ASSUME NEW p \in Procs, VerifyFails(p)
         PROVE  VInv'
    BY <1>0, <1>b, <1>11, <1>q, EndTypes DEF VerifyFails
  <1>12. ASSUME NEW p \in Procs, Rename(p)
         PROVE  VInv'
    BY <1>0, <1>b, <1>12, <1>q, EndTypes DEF Rename
  <1>13. ASSUME NEW p \in Procs, RenameFails(p)
         PROVE  VInv'
    BY <1>0, <1>13, <1>q, EndTypes DEF RenameFails, files
  <1>14. ASSUME NEW p \in Procs, OpenKeyFile(p) \/ StoreKeyFile(p)
         PROVE  VInv'
    <2>1. op[p].kind = "apply" /\ op[p].cred \in AdminKeys
      BY <1>0, <1>14 DEF OpenKeyFile, StoreKeyFile, OpTypes
    <2>2. keyFile' \in AdminKeys \cup {None}
      BY <1>14, <2>1 DEF OpenKeyFile, StoreKeyFile
    <2>3. OpTypes'
      BY <1>14, <2>1, MoveTypes DEF OpenKeyFile, StoreKeyFile, Pcs
    <2> QED BY <1>0, <1>14, <1>q, <2>2, <2>3 DEF OpenKeyFile, StoreKeyFile
  <1>15. ASSUME NEW p \in Procs, RemoveSession(p)
         PROVE  VInv'
    BY <1>0, <1>15, <1>q, EndTypes DEF RemoveSession
  <1>16. ASSUME NEW p \in Procs, Fault(p)
         PROVE  VInv'
    BY <1>0, <1>16, <1>q, EndTypes DEF Fault, files
  <1>17. CASE UNCHANGED vars
    <2>1. UNCHANGED <<vault, temp, session, keyFile, pc, op, mem, out>>
      BY <1>17 DEF vars, files, local
    <2>2. OpTypes'
      BY <1>0, <2>1 DEF OpTypes
    <2> QED BY <1>0, <1>q, <2>1, <2>2
  <1> QED
    BY <1>1, <1>2, <1>3, <1>4, <1>5, <1>6, <1>7, <1>8, <1>9, <1>10, <1>11, <1>12,
       <1>13, <1>14, <1>15, <1>16, <1>17 DEF Next

(* Whichever credential opens the vault or the temporary file reads the     *)
(* payload that save, recover_passphrase, apply_recovery_response or a      *)
(* rotation sealed last, for any number of concurrent operations.           *)
THEOREM SlotsAgreeHolds == Spec => []SlotsAgree
  <1>1. Init => VInv
    BY InitVInv
  <1>2. VInv /\ [Next]_vars => VInv'
    BY StepVInv
  <1>3. VInv => SlotsAgree
    BY DEF VInv, KeysInv, Agrees, SlotsAgree
  <1> QED BY <1>1, <1>2, <1>3, PTL DEF Spec
-----------------------------------------------------------------------------
(* The owner's access.                                                      *)

OpenableBy(f, creds) == f.ver \in Real /\ \E c \in creds : Unlocks(f, c)

(* A recovery that will replace the admin key file, and the credentials     *)
(* that outlast it: the passphrases, and the admin key while none is.       *)
Replacing(p) ==
  pc[p] \in {"opening", "writing", "keyfile", "keywriting"} /\ op[p].kind = "apply"
Lasting ==
  Pins \cup (IF \E p \in Procs : Replacing(p) THEN {} ELSE {keyFile} \ {None})

(* Where a process is fits what it does and what it has open; what it       *)
(* writes opens with the credential it brings, a passphrase unless it works *)
(* for the admin key.                                                       *)
ProcOk(p) ==
  /\ fd[p] # "none" => pc[p] = "writing"
  /\ fd[p] = "temp" => Rotating(p)
  /\ pc[p] = "loaded" => op[p].kind \notin {"recover", "apply"}
  /\ pc[p] \in {"verifying", "renaming"} => op[p].kind \in Rotations
  /\ pc[p] # "idle" => Brings(p) \in Pins \/ ForAdminKey(op[p])
  /\ pc[p] \in {"opening", "writing"} => OpenableBy(out[p], {Brings(p)})

ProcInv ==
  /\ fd \in [Procs -> {"none", "vault", "temp", "gone"}]
  /\ \A p \in Procs : ProcOk(p)

(* Whatever is about to become the vault opens for the owner, and goes on   *)
(* to when the admin key file is replaced.                                  *)
OpenInv ==
  ~rivals =>
    /\ \A p, q \in Procs : Rotating(p) /\ Rotating(q) => p = q
    /\ \A p \in Procs : fd[p] = "vault" => ~Rotating(p)
    /\ \A p \in Procs : pc[p] = "renaming" => OpenableBy(temp, {Brings(p)})
    /\ \A p \in Procs : pc[p] # "idle" => Brings(p) \in Lasting
    /\ vault = Missing \/ BeingWritten \/ torn \/ OpenableBy(vault, Lasting)

\* What save leaves opens with the credential it was given.
LEMMA SavedLoads ==
  ASSUME NEW f \in Content, NEW c \in Creds, NEW es \in SUBSET Entries, CanSave(f, c), KeyLeft
  PROVE  Loads(Saved(f, c, es), c) /\ Saved(f, c, es).entries = es
<1> DEFINE i == SlotOf(c)
<1>1. CASE f.ver \in {"v2", "v3"}
  <2>1. Unlocks(f, c)
    BY <1>1 DEF CanSave
  <2>2. KeyFor(f, c) \in Keys
    BY <2>1, UnlocksType
  <2> DEFINE w == Wrap(f.slots, i, c, KeyFor(f, c))
             g == Saved(f, c, es)
  <2>3. w[i] # None /\ w[i].cred = c /\ w[i].key = KeyFor(f, c)
    BY <2>2, WrapUnlocks DEF Content
  <2>4. g = [f EXCEPT !.slots = w, !.seal = KeyFor(f, c), !.entries = es]
    BY <1>1 DEF Saved
  <2> HIDE DEF w, g
  <2>5. g.ver = f.ver /\ g.slots = w /\ g.seal = KeyFor(f, c) /\ g.entries = es
    BY <2>4 DEF Content
  <2>6. g.ver \in Real /\ Unlocks(g, c) /\ KeyFor(g, c) = g.seal
    BY <1>1, <2>3, <2>5 DEF Real, Unlocks, KeyFor
  <2>7. QED
    BY <2>5, <2>6 DEF Loads, g
<1>2. CASE f.ver \notin {"v2", "v3"}
  <2> DEFINE k == IF f.ver = "v1" /\ Unlocks(f, c) THEN KeyFor(f, c) ELSE Fresh
             w == Wrap(NoSlots, i, c, k)
             g == Saved(f, c, es)
  <2>1. Fresh \in Keys
    BY DEF Fresh, KeyLeft
  <2>2. k \in Keys
    BY <2>1, UnlocksType
  <2> HIDE DEF k
  <2>3. w[i] # None /\ w[i].cred = c /\ w[i].key = k
    BY <2>2, WrapUnlocks DEF NoSlots
  <2>4. g = [ver |-> "v2", slots |-> w, seal |-> k, entries |-> es]
    BY <1>2 DEF Saved, k
  <2> HIDE DEF w, g
  <2>5. g.ver \in Real /\ Unlocks(g, c) /\ KeyFor(g, c) = g.seal /\ g.entries = es
    BY <2>3, <2>4 DEF Real, Unlocks, KeyFor
  <2>6. QED
    BY <2>5 DEF Loads, g
<1>3. QED
  BY <1>1, <1>2

LEMMA OpenableMonotone ==
  ASSUME NEW f, NEW few, NEW many, few \subseteq many, OpenableBy(f, few)
  PROVE  OpenableBy(f, many)
BY DEF OpenableBy

LEMMA OpenableOne ==
  ASSUME NEW f, NEW c, NEW many, c \in many, OpenableBy(f, {c})
  PROVE  OpenableBy(f, many)
BY DEF OpenableBy

\* The processes that take no part in a step.
Aside(p) ==
  \A q \in Procs : q # p => pc'[q] = pc[q] /\ op'[q] = op[q] /\ out'[q] = out[q]

\* What a step of p leaves of the others.
LEMMA AsideKeeps ==
  ASSUME NEW p \in Procs, Aside(p), NEW q \in Procs, q # p
  PROVE  /\ pc'[q] = pc[q] /\ op'[q] = op[q] /\ out'[q] = out[q]
         /\ (Rotating(q)' <=> Rotating(q)) /\ Brings(q)' = Brings(q)
         /\ (Replacing(q)' <=> Replacing(q))
BY DEF Aside, Rotating, Brings, WriteCred, Replacing

LEMMA ProcFrame ==
  ASSUME ProcInv, NEW p \in Procs, Aside(p), ProcOk(p)',
         fd' \in [Procs -> {"none", "vault", "temp", "gone"}],
         \A q \in Procs : q # p =>
           fd'[q] = fd[q] \/ (fd[q] # "none" /\ fd'[q] \notin {"none", "temp"})
  PROVE  ProcInv'
<1>1. ASSUME NEW q \in Procs, q # p PROVE ProcOk(q)'
  <2>1. /\ pc'[q] = pc[q] /\ op'[q] = op[q] /\ out'[q] = out[q]
        /\ (Rotating(q)' <=> Rotating(q)) /\ Brings(q)' = Brings(q)
    BY <1>1, AsideKeeps
  <2>2. ProcOk(q)
    BY DEF ProcInv
  <2>3. QED
    BY <1>1, <2>1, <2>2 DEF ProcOk
<1>2. QED
  BY <1>1 DEF ProcInv

\* The key file changes while the recovery that replaces it runs, and it is
\* one credential more once that is over.
LEMMA LastingGrows ==
  ASSUME NEW p \in Procs, Aside(p), Replacing(p)' => Replacing(p),
         Replacing(p) \/ keyFile' = keyFile
  PROVE  Lasting \subseteq Lasting'
<1>1. \A q \in Procs : q # p => (Replacing(q)' <=> Replacing(q))
  BY AsideKeeps
<1>2. CASE \E q \in Procs : Replacing(q)
  BY <1>2 DEF Lasting
<1>3. CASE ~\E q \in Procs : Replacing(q)
  <2>1. keyFile' = keyFile /\ ~\E q \in Procs : Replacing(q)'
    BY <1>1, <1>3
  <2>2. QED
    BY <2>1 DEF Lasting
<1>4. QED
  BY <1>2, <1>3

\* So what the others bring still counts.
LEMMA BringsFrame ==
  ASSUME OpenInv, ~rivals, NEW p \in Procs, Aside(p), Lasting \subseteq Lasting',
         pc'[p] # "idle" => Brings(p)' \in Lasting'
  PROVE  \A q \in Procs : pc'[q] # "idle" => Brings(q)' \in Lasting'
<1> SUFFICES ASSUME NEW q \in Procs, pc'[q] # "idle" PROVE Brings(q)' \in Lasting'
  OBVIOUS
<1>1. CASE q = p
  BY <1>1
<1>2. CASE q # p
  <2>1. pc'[q] = pc[q] /\ Brings(q)' = Brings(q)
    BY <1>2, AsideKeeps
  <2>2. Brings(q) \in Lasting
    BY <2>1 DEF OpenInv
  <2>3. QED
    BY <2>1, <2>2
<1>3. QED
  BY <1>1, <1>2

\* What is left to show of the owner's access, once one process has moved.
LEMMA OpenFrame ==
  ASSUME OpenInv, NEW p \in Procs, Aside(p), rivals => rivals',
         ~rivals' => /\ Rotating(p)' => Rotating(p) \/ \A q \in Procs : q # p => ~Rotating(q)
                     /\ \A q \in Procs : fd'[q] = "vault" => ~Rotating(q)'
                     /\ \A q \in Procs : pc'[q] = "renaming" => OpenableBy(temp', {Brings(q)'})
                     /\ \A q \in Procs : pc'[q] # "idle" => Brings(q)' \in Lasting'
                     /\ vault' = Missing \/ BeingWritten' \/ torn' \/ OpenableBy(vault', Lasting')
  PROVE  OpenInv'
<1>1. \A q \in Procs : q # p => (Rotating(q)' <=> Rotating(q))
  BY AsideKeeps
<1>2. ASSUME ~rivals', NEW q \in Procs, NEW r \in Procs, Rotating(q)', Rotating(r)'
      PROVE  q = r
  <2>1. \A x, y \in Procs : Rotating(x) /\ Rotating(y) => x = y
    BY <1>2 DEF OpenInv
  <2>2. QED
    BY <1>1, <1>2, <2>1
<1>3. QED
  BY <1>2 DEF OpenInv

OwnerInv == VInv /\ ProcInv /\ OpenInv

LEMMA InitOwnerInv == Init => OwnerInv
<1> SUFFICES ASSUME Init PROVE OwnerInv
  OBVIOUS
<1>1. VInv
  BY InitVInv
<1>2. ProcInv
  BY DEF Init, ProcInv, ProcOk, Rotating
<1>3. vault = Missing \/ OpenableBy(vault, Pins)
  <2> DEFINE pin == CHOOSE c \in Pins : TRUE
             s0 == Wrap(NoSlots, 0, pin, FirstKey)
             s1 == Wrap(s0, 1, Exported, FirstKey)
             s2 == Wrap(s1, 2, Dev, FirstKey)
             File(v, s) == [ver |-> v, slots |-> s, seal |-> FirstKey, entries |-> {}]
  <2>1. pin \in Pins /\ pin \in Creds /\ SlotOf(pin) = 0 /\ FirstKey \in Keys
        /\ NoSlots \in [0 .. 2 -> Slot \cup {None}]
        /\ Exported \in Creds /\ Dev \in Creds
    BY VaultAssumption DEF Creds, SlotOf, NoSlots
  <2> HIDE DEF pin
  <2>2. s0 \in [0 .. 2 -> Slot \cup {None}] /\ s0[0] # None /\ s0[0].cred = pin
    <3>1. Wrap(NoSlots, SlotOf(pin), pin, FirstKey)[SlotOf(pin)] # None
          /\ Wrap(NoSlots, SlotOf(pin), pin, FirstKey)[SlotOf(pin)].cred = pin
      BY <2>1, WrapUnlocks
    <3>2. s0 \in [0 .. 2 -> Slot \cup {None}]
      BY <2>1, WrapType
    <3>3. QED
      BY <2>1, <3>1, <3>2
  <2> HIDE DEF s0
  <2>3. s1 \in [0 .. 2 -> Slot \cup {None}] /\ s1[0] = s0[0]
    BY <2>1, <2>2, WrapKeepsFirst
  <2> HIDE DEF s1
  <2>4. s2[0] = s0[0]
    <3>1. s1 \in [0 .. 2 -> Slot \cup {None}] /\ Dev \in Creds /\ FirstKey \in Keys
      BY <2>1, <2>3
    <3>2. s2[0] = s1[0]
      BY <3>1, WrapKeepsFirst
    <3>3. QED
      BY <2>3, <3>2
  <2> HIDE DEF s2
  <2>5. \A v \in Real : \A s \in {s0, s1, s2} : OpenableBy(File(v, s), Pins)
    BY <2>1, <2>2, <2>3, <2>4 DEF OpenableBy, Unlocks
  <2>6. vault \in {Missing, File("v1", s0), File("v2", s0), File("v2", s1),
                   File("v3", s1), File("v3", s2)}
    BY DEF Init, FirstVaults, pin, s0, s1, s2
  <2> HIDE DEF File
  <2>7. QED
    BY <2>5, <2>6 DEF Real
<1>4. vault = Missing \/ OpenableBy(vault, Lasting)
  <2>1. Pins \subseteq Lasting
    BY DEF Lasting
  <2>2. QED
    BY <1>3, <2>1, OpenableMonotone
<1>5. OpenInv
  BY <1>4 DEF Init, OpenInv, Rotating
<1>6. QED
  BY <1>1, <1>2, <1>5 DEF OwnerInv

\* An operation begins, with what it needs from the owner, and what it does
\* not spoil.
LEMMA BeginOwner ==
  ASSUME OwnerInv, NEW p \in Procs, NEW o, Begin(p, o),
         NEW at \in {"loaded", "opening"}, pc' = [pc EXCEPT ![p] = at],
         UNCHANGED <<vault, temp, keyFile, fd>>,
         \A q \in Procs : q # p => out'[q] = out[q],
         at = "loaded" => o.kind \notin {"recover", "apply"},
         at = "opening" => OpenableBy(out'[p], {Brings(p)'}),
         Brings(p)' \in Pins \/ (ForAdminKey(o) /\ Brings(p)' = keyFile),
         o.kind = "apply" => vault.ver = "v3"
  PROVE  ProcInv' /\ OpenInv'
<1>1. /\ pc \in [Procs -> Pcs] /\ op \in [Procs -> Operation \cup {None}]
      /\ fd \in [Procs -> {"none", "vault", "temp", "gone"}]
      /\ ProcOk(p) /\ pc[p] = "idle" /\ op' = [op EXCEPT ![p] = o]
      /\ keyFile \in AdminKeys \cup {None}
  BY DEF OwnerInv, VInv, FileTypes, OpTypes, ProcInv, Begin
<1>2. pc'[p] = at /\ op'[p] = o /\ fd[p] = "none" /\ Aside(p)
  BY <1>1 DEF ProcOk, Aside
<1>3. ProcOk(p)'
  BY <1>2 DEF ProcOk
<1>4. ProcInv'
  BY <1>1, <1>2, <1>3, ProcFrame DEF OwnerInv
<1>5. /\ rivals => rivals'
      /\ ~rivals' => \A q \in Procs : pc[q] \notin {"idle", "cleanup"} => ~Spoil(o, op[q])
      /\ torn => torn'
  BY Zenon DEF Begin
<1>6. Rotating(p)' <=> o.kind \in Rotations
  BY <1>2 DEF Rotating
<1>7. \A q \in Procs : q # p => (Rotating(q)' <=> Rotating(q)) /\ Brings(q)' = Brings(q)
                                /\ pc'[q] = pc[q] /\ (Replacing(q)' <=> Replacing(q))
  BY <1>2, AsideKeeps
<1>8. BeingWritten => BeingWritten'
  BY <1>1, <1>2, <1>7 DEF BeingWritten
<1>9. ASSUME ~rivals'
      PROVE  /\ \A q \in Procs : pc'[q] # "idle" => Brings(q)' \in Lasting'
             /\ vault' = Missing \/ BeingWritten' \/ torn' \/ OpenableBy(vault', Lasting')
  <2>1. /\ \A q \in Procs : pc[q] # "idle" => Brings(q) \in Lasting
        /\ vault = Missing \/ BeingWritten \/ torn \/ OpenableBy(vault, Lasting)
    BY <1>5, <1>9 DEF OwnerInv, OpenInv
  <2>2. CASE o.kind = "apply"
    <3>1. Pins \subseteq Lasting'
      BY DEF Lasting
    <3>2. ~ForAdminKey(o)
      BY <2>2 DEF ForAdminKey
    <3>3. ASSUME NEW q \in Procs, q # p, pc'[q] # "idle"
          PROVE  Brings(q)' \in Lasting'
      <4>1. pc[q] # "idle" /\ Brings(q)' = Brings(q)
        BY <1>7, <3>3
      <4>2. ~ForAdminKey(op[q])
        <5>1. CASE pc[q] = "cleanup"
          <6>1. op[q].kind = "apply"
            BY <5>1 DEF OwnerInv, VInv, FileTypes, OpTypes
          <6>2. QED
            BY <6>1 DEF ForAdminKey
        <5>2. CASE pc[q] # "cleanup"
          BY <1>5, <1>9, <2>2, <4>1, <5>2 DEF Spoil
        <5>3. QED
          BY <5>1, <5>2
      <4>3. ProcOk(q)
        BY DEF OwnerInv, ProcInv
      <4>4. QED
        BY <3>1, <4>1, <4>2, <4>3 DEF ProcOk
    <3>4. Brings(p)' \in Lasting'
      BY <3>1, <3>2
    <3>5. OpenableBy(vault, Pins)
      <4>1. vault.slots[0] # None /\ vault.slots[0].cred \in Pins /\ vault.ver = "v3"
        BY <2>2 DEF OwnerInv, VInv, KeysInv, Agrees
      <4>2. Unlocks(vault, vault.slots[0].cred)
        BY <4>1 DEF Unlocks, SlotOf
      <4>3. QED
        BY <4>1, <4>2 DEF OpenableBy, Real
    <3>6. OpenableBy(vault', Lasting')
      BY <3>1, <3>5, OpenableMonotone
    <3>7. QED
      BY <3>3, <3>4, <3>6
  <2>3. CASE o.kind # "apply"
    <3>1. ~Replacing(p)'
      BY <1>2, <2>3 DEF Replacing
    <3>2. Lasting \subseteq Lasting'
      BY <1>2, <3>1, LastingGrows
    <3>3. Brings(p)' \in Lasting'
      <4>1. CASE Brings(p)' \in Pins
        BY <4>1 DEF Lasting
      <4>2. CASE ForAdminKey(o) /\ Brings(p)' = keyFile /\ Brings(p)' \notin Pins
        <5>1. \A q \in Procs : ~Replacing(q)
          BY <1>5, <1>9, <4>2 DEF Replacing, Spoil
        <5>2. \A q \in Procs : ~Replacing(q)'
          BY <1>7, <3>1, <5>1
        <5>3. Brings(p)' # None
          <6>1. ProcOk(p)' /\ Brings(p)' = o.cred /\ o.cred \in AdminKeys
            BY <1>2, <1>3, <4>2 DEF ForAdminKey, Brings, WriteCred
          <6>2. QED
            BY <6>1, VaultAssumption
        <5>4. QED
          BY <4>2, <5>2, <5>3 DEF Lasting
      <4>3. QED
        BY <4>1, <4>2
    <3>4. \A q \in Procs : pc'[q] # "idle" => Brings(q)' \in Lasting'
      BY <1>2, <1>5, <1>9, <3>2, <3>3, BringsFrame DEF OwnerInv
    <3>5. vault' = Missing \/ BeingWritten' \/ torn' \/ OpenableBy(vault', Lasting')
      BY <1>5, <1>8, <2>1, <3>2, OpenableMonotone
    <3>6. QED
      BY <3>4, <3>5
  <2>4. QED
    BY <2>2, <2>3
<1>10. ASSUME ~rivals'
       PROVE  /\ Rotating(p)' => Rotating(p) \/ \A q \in Procs : q # p => ~Rotating(q)
              /\ \A q \in Procs : fd'[q] = "vault" => ~Rotating(q)'
              /\ \A q \in Procs : pc'[q] = "renaming" => OpenableBy(temp', {Brings(q)'})
  <2>1. /\ \A q \in Procs : fd[q] = "vault" => ~Rotating(q)
        /\ \A q \in Procs : pc[q] = "renaming" => OpenableBy(temp, {Brings(q)})
    BY <1>5, <1>10 DEF OwnerInv, OpenInv
  <2>2. \A q \in Procs : fd'[q] = "vault" => ~Rotating(q)'
    BY <1>2, <1>7, <2>1
  <2>3. \A q \in Procs : pc'[q] = "renaming" => OpenableBy(temp', {Brings(q)'})
    BY <1>2, <1>7, <2>1
  <2>4. ASSUME Rotating(p)', NEW q \in Procs, Rotating(q)
        PROVE  FALSE
    <3>1. pc[q] \notin {"idle", "cleanup"}
      BY <2>4 DEF Rotating, Rotations, OwnerInv, VInv, FileTypes, OpTypes
    <3>2. Spoil(o, op[q])
      BY <1>6, <2>4 DEF Rotating, Spoil
    <3>3. QED
      BY <1>5, <1>10, <3>1, <3>2
  <2>5. QED
    BY <2>2, <2>3, <2>4
<1>11. OpenInv'
  BY <1>2, <1>5, <1>9, <1>10, OpenFrame DEF OwnerInv
<1>12. QED
  BY <1>4, <1>11

\* An operation goes on, or ends, without a rotation beginning or a file
\* changing other than the admin key's.
LEMMA GoOnOwner ==
  ASSUME OwnerInv, NEW p \in Procs, Aside(p), UNCHANGED <<vault, temp, rivals, torn>>,
         fd' = fd, pc[p] # "writing", pc'[p] # "writing",
         ProcOk(p)',
         Rotating(p)' => Rotating(p),
         Replacing(p)' => Replacing(p), Replacing(p) \/ keyFile' = keyFile,
         pc'[p] # "idle" => pc[p] # "idle" /\ Brings(p)' = Brings(p),
         pc'[p] = "renaming" => OpenableBy(temp, {Brings(p)'})
  PROVE  ProcInv' /\ OpenInv'
<1>1. ProcInv'
  BY ProcFrame DEF OwnerInv, ProcInv
<1>2. Lasting \subseteq Lasting'
  BY LastingGrows
<1>3. \A q \in Procs : q # p => (Rotating(q)' <=> Rotating(q)) /\ Brings(q)' = Brings(q)
                                /\ pc'[q] = pc[q]
  BY AsideKeeps
<1>4. BeingWritten => BeingWritten'
  BY <1>3 DEF BeingWritten
<1>5. ASSUME ~rivals
      PROVE  /\ \A q \in Procs : fd'[q] = "vault" => ~Rotating(q)'
             /\ \A q \in Procs : pc'[q] = "renaming" => OpenableBy(temp', {Brings(q)'})
             /\ \A q \in Procs : pc'[q] # "idle" => Brings(q)' \in Lasting'
             /\ vault' = Missing \/ BeingWritten' \/ torn' \/ OpenableBy(vault', Lasting')
  <2>1. /\ \A q \in Procs : fd[q] = "vault" => ~Rotating(q)
        /\ \A q \in Procs : pc[q] = "renaming" => OpenableBy(temp, {Brings(q)})
        /\ \A q \in Procs : pc[q] # "idle" => Brings(q) \in Lasting
        /\ vault = Missing \/ BeingWritten \/ torn \/ OpenableBy(vault, Lasting)
    BY <1>5 DEF OwnerInv, OpenInv
  <2>2. \A q \in Procs : fd'[q] = "vault" => ~Rotating(q)'
    BY <1>3, <2>1
  <2>3. \A q \in Procs : pc'[q] = "renaming" => OpenableBy(temp', {Brings(q)'})
    BY <1>3, <2>1
  <2>4. pc'[p] # "idle" => Brings(p)' \in Lasting'
    BY <1>2, <2>1
  <2>5. \A q \in Procs : pc'[q] # "idle" => Brings(q)' \in Lasting'
    BY <1>2, <1>5, <2>4, BringsFrame DEF OwnerInv
  <2>6. vault' = Missing \/ BeingWritten' \/ torn' \/ OpenableBy(vault', Lasting')
    BY <1>2, <1>4, <2>1, OpenableMonotone
  <2>7. QED
    BY <2>2, <2>3, <2>5, <2>6
<1>6. OpenInv'
  BY <1>5, OpenFrame DEF OwnerInv
<1>7. QED
  BY <1>1, <1>6

\* A recovered file: new slots, of which the first is the new passphrase's.
LEMMA RecoveredLoads ==
  ASSUME NEW f \in Content, NEW s, NEW new \in Pins, f.ver = "v3",
         s[0] # None, s[0].cred = new, s[0].key = f.seal
  PROVE  /\ Loads([f EXCEPT !.slots = s], new)
         /\ [f EXCEPT !.slots = s].entries = f.entries
<1> DEFINE g == [f EXCEPT !.slots = s]
<1>1. g.ver = "v3" /\ g.slots = s /\ g.seal = f.seal /\ g.entries = f.entries
  BY DEF Content
<1> HIDE DEF g
<1>2. SlotOf(new) = 0
  BY DEF SlotOf
<1>3. Loads(g, new) /\ g.entries = f.entries
  BY <1>1, <1>2 DEF Loads, Unlocks, KeyFor, Real
<1>4. QED
  BY <1>3 DEF g

\* What a recovery is about to write opens with the passphrase it sets.  One
\* by the developer fills slot 1 for the admin key it makes; the other leaves
\* that slot alone.
RecoveryBegins(p, o) ==
  /\ Begin(p, o) /\ o \in Operation /\ o.kind \in {"recover", "apply"} /\ o.new \in Pins
  /\ pc' = [pc EXCEPT ![p] = "opening"]
  /\ vault.ver = "v3" /\ Loads(out'[p], o.new) /\ out'[p].entries = vault.entries
  /\ o.kind = "recover" => out'[p].slots[1] = vault.slots[1]
  /\ o.kind = "apply" => out'[p].slots[1] # None /\ out'[p].slots[1].cred = o.cred
  /\ \A q \in Procs : q # p => out'[q] = out[q]
  /\ UNCHANGED <<vault, temp, session, keyFile, mem, fd>>

LEMMA RecoverBegins ==
  ASSUME VInv, NEW p \in Procs, RecoverPassphrase(p)
  PROVE  \E o : RecoveryBegins(p, o)
<1>1. PICK new \in Pins :
        /\ keyFile # None /\ vault.ver = "v3" /\ Unlocks(vault, keyFile)
        /\ Begin(p, Op("recover", keyFile, new, None))
        /\ out' = [out EXCEPT ![p] = [vault EXCEPT
                     !.slots = Wrap(vault.slots, 0, new, KeyFor(vault, keyFile))]]
        /\ pc' = [pc EXCEPT ![p] = "opening"]
        /\ UNCHANGED <<files, mem, fd>>
  BY DEF RecoverPassphrase
<1> DEFINE o == Op("recover", keyFile, new, None)
           s == Wrap(vault.slots, 0, new, KeyFor(vault, keyFile))
<1>2. vault \in Content /\ keyFile \in AdminKeys \cup {None} /\ Agrees(vault)
      /\ out \in [Procs -> Content]
  BY DEF VInv, FileTypes, KeysInv
<1>3. KeyFor(vault, keyFile) \in Keys /\ KeyFor(vault, keyFile) = vault.seal
  BY <1>1, <1>2, UnlocksType
<1>4. vault.slots \in [0 .. 2 -> Slot \cup {None}]
  BY <1>2 DEF Content
<1>5. s[0] # None /\ s[0].cred = new /\ s[0].key = vault.seal
  BY <1>3, <1>4, WrapPin
<1>6. s[1] = vault.slots[1]
  BY <1>4 DEF Wrap
<1>7. o \in Operation /\ o.kind = "recover" /\ o.new = new
  BY <1>1, <1>2 DEF Op, Operation, Changes, Creds
<1>8. out'[p] = [vault EXCEPT !.slots = s] /\ \A q \in Procs : q # p => out'[q] = out[q]
  BY <1>1, <1>2
<1> HIDE DEF s
<1>9. Loads(out'[p], new) /\ out'[p].entries = vault.entries
  BY <1>1, <1>2, <1>5, <1>8, RecoveredLoads
<1>s. out'[p].slots = s
  BY <1>2, <1>8 DEF Content
<1>10. Begin(p, o)
  BY <1>1
<1> HIDE DEF o
<1>11. RecoveryBegins(p, o)
  BY <1>1, <1>6, <1>7, <1>8, <1>9, <1>s, <1>10 DEF RecoveryBegins, files
<1>12. QED
  BY <1>11

LEMMA ApplyBegins ==
  ASSUME VInv, NEW p \in Procs, ApplyRecovery(p)
  PROVE  \E o : RecoveryBegins(p, o)
<1>1. PICK new \in Pins :
        /\ session # None /\ vault.ver = "v3" /\ AdminKeyLeft
        /\ Begin(p, Op("apply", FreshAdminKey, new, None))
        /\ LET users == Wrap(Wrap(vault.slots, 0, new, session), 1, FreshAdminKey, session)
           IN  out' = [out EXCEPT ![p] = [vault EXCEPT !.slots =
                 IF vault.slots[2] = None THEN users ELSE Wrap(users, 2, Dev, session)]]
        /\ pc' = [pc EXCEPT ![p] = "opening"]
        /\ UNCHANGED <<files, mem, fd>>
  BY DEF ApplyRecovery
<1> DEFINE a == FreshAdminKey
           o == Op("apply", a, new, None)
           s0 == Wrap(vault.slots, 0, new, session)
           s1 == Wrap(s0, 1, a, session)
           s2 == Wrap(s1, 2, Dev, session)
           s == IF vault.slots[2] = None THEN s1 ELSE s2
<1>2. vault \in Content /\ Agrees(vault) /\ out \in [Procs -> Content]
      /\ session \in {None, FirstKey}
  BY DEF VInv, FileTypes, KeysInv
<1>3. session \in Keys /\ session = vault.seal
  BY <1>1, <1>2, VaultAssumption DEF Agrees
<1>4. /\ vault.slots \in [0 .. 2 -> Slot \cup {None}]
      /\ a \in AdminKeys /\ a \in Creds /\ Dev \in Creds
  BY <1>1, <1>2 DEF Content, Creds, FreshAdminKey, AdminKeyLeft
<1>5. s0 \in [0 .. 2 -> Slot \cup {None}] /\ s0[0] # None /\ s0[0].cred = new
      /\ s0[0].key = vault.seal
  BY <1>3, <1>4, WrapPin
<1> HIDE DEF s0
<1>6. session \in Keys /\ SlotOf(a) = 1
  BY <1>3, <1>4, VaultAssumption DEF SlotOf
<1>7. s1 \in [0 .. 2 -> Slot \cup {None}] /\ s1[0] = s0[0]
  BY <1>4, <1>5, <1>6, WrapKeepsFirst
<1>8. s1[1] # None /\ s1[1].cred = a
  <2> HIDE DEF a
  <2>1. /\ Wrap(s0, SlotOf(a), a, session)[SlotOf(a)] # None
        /\ Wrap(s0, SlotOf(a), a, session)[SlotOf(a)].cred = a
    BY <1>4, <1>5, <1>6, WrapUnlocks
  <2>2. QED
    BY <1>6, <2>1
<1> HIDE DEF s1
<1>9. s2[0] = s0[0] /\ s2[1] = s1[1]
  <2>1. s2[0] = s0[0]
    BY <1>4, <1>6, <1>7, WrapKeepsFirst
  <2>2. s2[1] = s1[1]
    BY <1>7 DEF Wrap
  <2>3. QED
    BY <2>1, <2>2
<1> HIDE DEF s2
<1>10. /\ s[0] # None /\ s[0].cred = new /\ s[0].key = vault.seal
       /\ s[1] # None /\ s[1].cred = a
  BY <1>5, <1>7, <1>8, <1>9
<1>11. o \in Operation /\ o.kind = "apply" /\ o.new = new /\ o.cred = a
  BY <1>4 DEF Op, Operation, Changes
<1>12. out'[p] = [vault EXCEPT !.slots = s] /\ \A q \in Procs : q # p => out'[q] = out[q]
  BY <1>1, <1>2 DEF s0, s1, s2
<1> HIDE DEF s, a
<1>13. Loads(out'[p], new) /\ out'[p].entries = vault.entries
  BY <1>1, <1>2, <1>10, <1>12, RecoveredLoads
<1>s. out'[p].slots = s
  BY <1>2, <1>12 DEF Content
<1>14. Begin(p, o)
  BY <1>1 DEF a
<1> HIDE DEF o
<1>15. RecoveryBegins(p, o)
  BY <1>1, <1>10, <1>11, <1>12, <1>13, <1>s, <1>14 DEF RecoveryBegins, files
<1>16. QED
  BY <1>15

\* A change begins with the vault it loads, or with nothing at all.
LoadBegins(p, o) ==
  /\ Begin(p, o) /\ o \in Operation /\ o.kind \in {"init", "set", "delete"} \cup Rotations
  /\ o.cred \in Held /\ (o.kind = "rotate_passphrase" => o.new \in Pins)
  /\ o.kind = "init" => o.cred \in Pins
  /\ pc' = [pc EXCEPT ![p] = "loaded"]
  /\ IF o.kind = "init" THEN vault = Missing /\ mem' = [mem EXCEPT ![p] = {}]
     ELSE Loads(vault, o.cred) /\ mem' = [mem EXCEPT ![p] = vault.entries]
  /\ UNCHANGED <<vault, temp, session, keyFile, out, fd>>

LEMMA ChangeBegins ==
  ASSUME VInv, NEW p \in Procs, LoadVault(p) \/ BeginInit(p)
  PROVE  \E o : LoadBegins(p, o)
<1>1. Held \subseteq Creds
  BY DEF VInv, FileTypes, Held, Creds
<1>2. CASE LoadVault(p)
  <2>1. PICK c \in Held : \E o \in
             {Op(kind, c, None, n) : kind \in {"set", "delete"}, n \in Names}
             \cup {Op("rotate_passphrase", c, new, None) : new \in Pins \ {c}}
             \cup {Op("rotate_column_key", c, None, None)} :
               /\ Loads(vault, c)
               /\ Begin(p, o)
               /\ mem' = [mem EXCEPT ![p] = vault.entries]
               /\ pc' = [pc EXCEPT ![p] = "loaded"]
               /\ UNCHANGED <<files, out, fd>>
    BY <1>2 DEF LoadVault
  <2>2. ASSUME NEW o, Begin(p, o), o \in Operation, o.cred = c,
               o.kind \in {"set", "delete"} \cup Rotations,
               o.kind = "rotate_passphrase" => o.new \in Pins
        PROVE  LoadBegins(p, o)
    BY <2>1, <2>2 DEF LoadBegins, files, Rotations
  <2>3. CASE \E kind \in {"set", "delete"}, n \in Names : Begin(p, Op(kind, c, None, n))
    <3>1. PICK kind \in {"set", "delete"}, n \in Names : Begin(p, Op(kind, c, None, n))
      BY <2>3
    <3> DEFINE o == Op(kind, c, None, n)
    <3>2. o \in Operation /\ o.cred = c /\ o.kind \in {"set", "delete"}
      BY <1>1 DEF Op, Operation, Changes
    <3>3. Begin(p, o)
      BY <3>1
    <3> HIDE DEF o
    <3>4. QED
      BY <2>2, <3>2, <3>3
  <2>4. CASE \E new \in Pins : Begin(p, Op("rotate_passphrase", c, new, None))
    <3>1. PICK new \in Pins : Begin(p, Op("rotate_passphrase", c, new, None))
      BY <2>4
    <3> DEFINE o == Op("rotate_passphrase", c, new, None)
    <3>2. o \in Operation /\ o.cred = c /\ o.kind \in Rotations /\ o.new \in Pins
      BY <1>1 DEF Op, Operation, Changes, Rotations
    <3>3. Begin(p, o)
      BY <3>1
    <3> HIDE DEF o
    <3>4. QED
      BY <2>2, <3>2, <3>3
  <2>5. CASE Begin(p, Op("rotate_column_key", c, None, None))
    <3> DEFINE o == Op("rotate_column_key", c, None, None)
    <3>2. o \in Operation /\ o.cred = c /\ o.kind = "rotate_column_key"
      BY <1>1 DEF Op, Operation, Changes, Rotations
    <3>3. Begin(p, o)
      BY <2>5
    <3> HIDE DEF o
    <3>4. QED
      BY <2>2, <3>2, <3>3 DEF Rotations
  <2>6. QED
    BY <2>1, <2>3, <2>4, <2>5
<1>3. CASE BeginInit(p)
  <2>1. PICK c \in Pins :
          /\ vault = Missing
          /\ Begin(p, Op("init", c, None, None))
          /\ mem' = [mem EXCEPT ![p] = {}]
          /\ pc' = [pc EXCEPT ![p] = "loaded"]
          /\ UNCHANGED <<files, out, fd>>
    BY <1>3 DEF BeginInit
  <2> DEFINE o == Op("init", c, None, None)
  <2>2. o \in Operation /\ o.cred \in Held /\ o.cred \in Pins /\ o.kind = "init"
    BY DEF Op, Operation, Changes, Creds, Held
  <2>3. Begin(p, o)
    BY <2>1
  <2> HIDE DEF o
  <2>4. LoadBegins(p, o)
    BY <2>1, <2>2, <2>3 DEF LoadBegins, files
  <2>5. QED
    BY <2>4
<1>4. QED
  BY <1>2, <1>3

\* The end of an operation, as the others see it.
LEMMA EndAside ==
  ASSUME VInv, NEW p \in Procs, End(p)
  PROVE  Aside(p) /\ pc'[p] = "idle" /\ ~Rotating(p)'
BY DEF VInv, FileTypes, OpTypes, End, Aside, Rotating

\* A write of p: the first half empties the file.
LEMMA OpenFileOwner ==
  ASSUME OwnerInv, NEW p \in Procs, OpenFile(p)
  PROVE  ProcInv' /\ OpenInv'
<1>1. /\ pc \in [Procs -> Pcs]
      /\ fd \in [Procs -> {"none", "vault", "temp", "gone"}]
      /\ ProcOk(p) /\ pc[p] = "opening"
  BY DEF OwnerInv, VInv, FileTypes, OpTypes, ProcInv, OpenFile
<1>2. /\ pc'[p] = "writing" /\ fd'[p] = Target(p) /\ Aside(p) /\ UNCHANGED <<op, out, keyFile, rivals, torn>>
      /\ \A q \in Procs : q # p => fd'[q] = fd[q]
      /\ Target(p) \in {"vault", "temp"}
      /\ fd' \in [Procs -> {"none", "vault", "temp", "gone"}]
  BY <1>1 DEF OpenFile, Aside, history, Target
<1>3. /\ Rotating(p)' <=> Rotating(p)
      /\ Replacing(p)' <=> Replacing(p)
      /\ Brings(p)' = Brings(p)
  BY <1>1, <1>2 DEF Rotating, Replacing, Brings, WriteCred
<1>4. Target(p) = "temp" <=> Rotating(p)
  BY <1>1 DEF Target, Rotating
<1>5. Lasting \subseteq Lasting'
  BY <1>2, <1>3, LastingGrows
<1>6. ProcOk(p)'
  BY <1>1, <1>2, <1>3, <1>4 DEF ProcOk
<1>7. ProcInv'
  BY <1>2, <1>6, ProcFrame DEF OwnerInv
<1>8. \A q \in Procs : q # p => (Rotating(q)' <=> Rotating(q)) /\ Brings(q)' = Brings(q)
                                /\ pc'[q] = pc[q]
  BY <1>2, AsideKeeps
<1>9. ASSUME ~rivals
      PROVE  /\ \A q \in Procs : fd'[q] = "vault" => ~Rotating(q)'
             /\ \A q \in Procs : pc'[q] = "renaming" => OpenableBy(temp', {Brings(q)'})
             /\ \A q \in Procs : pc'[q] # "idle" => Brings(q)' \in Lasting'
             /\ vault' = Missing \/ BeingWritten' \/ torn' \/ OpenableBy(vault', Lasting')
  <2>1. /\ \A q, r \in Procs : Rotating(q) /\ Rotating(r) => q = r
        /\ \A q \in Procs : fd[q] = "vault" => ~Rotating(q)
        /\ \A q \in Procs : pc[q] = "renaming" => OpenableBy(temp, {Brings(q)})
        /\ \A q \in Procs : pc[q] # "idle" => Brings(q) \in Lasting
        /\ vault = Missing \/ BeingWritten \/ torn \/ OpenableBy(vault, Lasting)
    BY <1>9 DEF OwnerInv, OpenInv
  <2>2. \A q \in Procs : fd'[q] = "vault" => ~Rotating(q)'
    BY <1>2, <1>3, <1>4, <1>8, <2>1
  <2>3. ASSUME NEW q \in Procs, pc'[q] = "renaming" PROVE OpenableBy(temp', {Brings(q)'})
    <3>1. q # p /\ pc[q] = "renaming" /\ Brings(q)' = Brings(q)
      BY <1>2, <1>8, <2>3
    <3>2. Rotating(q)
      BY <3>1 DEF OwnerInv, ProcInv, ProcOk, Rotating
    <3>3. ~Rotating(p)
      BY <2>1, <3>1, <3>2
    <3>4. temp' = temp
      BY <1>4, <3>3 DEF OpenFile
    <3>5. QED
      BY <2>1, <3>1, <3>4
  <2>4. vault' = Missing \/ BeingWritten' \/ torn' \/ OpenableBy(vault', Lasting')
    <3>1. CASE Target(p) = "vault"
      BY <1>2, <3>1 DEF BeingWritten
    <3>2. CASE Target(p) = "temp"
      <4>1. vault' = vault
        BY <3>2 DEF OpenFile
      <4>2. BeingWritten => BeingWritten'
        BY <1>1, <1>2, <1>8 DEF BeingWritten
      <4>3. QED
        BY <1>2, <1>5, <2>1, <4>1, <4>2, OpenableMonotone
    <3>3. QED
      BY <1>2, <3>1, <3>2
  <2>5. pc'[p] # "idle" => Brings(p)' \in Lasting'
    BY <1>1, <1>3, <1>5, <2>1
  <2>6. \A q \in Procs : pc'[q] # "idle" => Brings(q)' \in Lasting'
    BY <1>2, <1>5, <1>9, <2>5, BringsFrame DEF OwnerInv
  <2>7. QED
    BY <2>2, <2>3, <2>4, <2>6
<1>10. OpenInv'
  BY <1>2, <1>3, <1>9, OpenFrame DEF OwnerInv
<1>11. QED
  BY <1>7, <1>10

\* The second half puts content in that opens for the owner.
LEMMA WriteFileOwner ==
  ASSUME OwnerInv, NEW p \in Procs, WriteFile(p)
  PROVE  ProcInv' /\ OpenInv'
<1>1. /\ pc \in [Procs -> Pcs] /\ op \in [Procs -> Operation \cup {None}]
      /\ fd \in [Procs -> {"none", "vault", "temp", "gone"}]
      /\ ProcOk(p) /\ pc[p] = "writing"
  BY DEF OwnerInv, VInv, FileTypes, OpTypes, ProcInv, WriteFile
<1>2. /\ fd'[p] = "none" /\ Aside(p) /\ UNCHANGED <<keyFile, rivals, torn>>
      /\ \A q \in Procs : q # p => fd'[q] = fd[q]
      /\ fd' \in [Procs -> {"none", "vault", "temp", "gone"}]
      /\ vault' = IF fd[p] = "vault" THEN out[p] ELSE vault
      /\ temp' = IF fd[p] = "temp" THEN out[p] ELSE temp
  BY <1>1, EndAside DEF WriteFile, Aside, OwnerInv
<1>3. /\ pc'[p] \in {"idle", "keyfile", "verifying"}
      /\ pc'[p] # "idle" => op'[p] = op[p]
      /\ pc'[p] = "verifying" => op[p].kind \in Rotations
      /\ pc'[p] = "keyfile" => op[p].kind = "apply"
  <2>1. CASE op[p].kind \in Rotations \cup {"apply"}
    BY <1>1, <2>1 DEF WriteFile
  <2>2. CASE op[p].kind \notin Rotations \cup {"apply"}
    BY <2>2, EndAside, <1>1, <1>2 DEF WriteFile, OwnerInv
  <2>3. QED
    BY <2>1, <2>2
<1>4. /\ Rotating(p)' => Rotating(p)
      /\ Replacing(p)' => Replacing(p)
      /\ pc'[p] # "idle" => Brings(p)' = Brings(p)
  BY <1>1, <1>3 DEF Rotating, Replacing, Brings, WriteCred
<1>5. Lasting \subseteq Lasting'
  BY <1>2, <1>4, LastingGrows
<1>6. ProcOk(p)'
  BY <1>1, <1>2, <1>3, <1>4 DEF ProcOk
<1>7. ProcInv'
  BY <1>2, <1>6, ProcFrame DEF OwnerInv
<1>8. \A q \in Procs : q # p => (Rotating(q)' <=> Rotating(q)) /\ Brings(q)' = Brings(q)
                                /\ pc'[q] = pc[q]
  BY <1>2, AsideKeeps
<1>9. OpenableBy(out[p], {Brings(p)})
  BY <1>1 DEF ProcOk
<1>10. ASSUME ~rivals
       PROVE  /\ \A q \in Procs : fd'[q] = "vault" => ~Rotating(q)'
              /\ \A q \in Procs : pc'[q] = "renaming" => OpenableBy(temp', {Brings(q)'})
              /\ \A q \in Procs : pc'[q] # "idle" => Brings(q)' \in Lasting'
              /\ vault' = Missing \/ BeingWritten' \/ torn' \/ OpenableBy(vault', Lasting')
  <2>1. /\ \A q, r \in Procs : Rotating(q) /\ Rotating(r) => q = r
        /\ \A q \in Procs : fd[q] = "vault" => ~Rotating(q)
        /\ \A q \in Procs : pc[q] = "renaming" => OpenableBy(temp, {Brings(q)})
        /\ \A q \in Procs : pc[q] # "idle" => Brings(q) \in Lasting
        /\ vault = Missing \/ BeingWritten \/ torn \/ OpenableBy(vault, Lasting)
    BY <1>10 DEF OwnerInv, OpenInv
  <2>2. \A q \in Procs : fd'[q] = "vault" => ~Rotating(q)'
    BY <1>2, <1>8, <2>1
  <2>3. ASSUME NEW q \in Procs, pc'[q] = "renaming" PROVE OpenableBy(temp', {Brings(q)'})
    <3>1. q # p /\ pc[q] = "renaming" /\ Brings(q)' = Brings(q)
      BY <1>3, <1>8, <2>3
    <3>2. Rotating(q)
      BY <3>1 DEF OwnerInv, ProcInv, ProcOk, Rotating
    <3>3. ~Rotating(p)
      BY <2>1, <3>1, <3>2
    <3>4. temp' = temp
      BY <1>1, <1>2, <3>3 DEF ProcOk
    <3>5. QED
      BY <2>1, <3>1, <3>4
  <2>4. Brings(p) \in Lasting'
    BY <1>1, <1>5, <2>1
  <2>5. vault' = Missing \/ BeingWritten' \/ torn' \/ OpenableBy(vault', Lasting')
    <3>1. CASE fd[p] = "vault"
      BY <1>2, <1>9, <2>4, <3>1, OpenableOne
    <3>2. CASE fd[p] # "vault"
      <4>1. BeingWritten => BeingWritten'
        BY <1>2, <1>8, <3>2 DEF BeingWritten
      <4>2. QED
        BY <1>2, <1>5, <2>1, <3>2, <4>1, OpenableMonotone
    <3>3. QED
      BY <3>1, <3>2
  <2>6. \A q \in Procs : pc'[q] # "idle" => Brings(q)' \in Lasting'
    BY <1>2, <1>4, <1>5, <1>10, <2>4, BringsFrame DEF OwnerInv
  <2>7. QED
    BY <2>2, <2>3, <2>5, <2>6
<1>11. OpenInv'
  BY <1>2, <1>4, <1>10, OpenFrame DEF OwnerInv
<1>12. QED
  BY <1>7, <1>11

\* A rotation puts what it has verified in the place of the vault, or removes it.
LEMMA RotationEndsOwner ==
  ASSUME OwnerInv, NEW p \in Procs, VerifyFails(p) \/ Rename(p)
  PROVE  ProcInv' /\ OpenInv'
<1>1. /\ fd \in [Procs -> {"none", "vault", "temp", "gone"}]
      /\ ProcOk(p) /\ pc[p] \in {"verifying", "renaming"} /\ fd[p] = "none"
      /\ Rotating(p)
  BY DEF OwnerInv, ProcInv, ProcOk, VerifyFails, Rename, Rotating
<1>2. /\ Aside(p) /\ pc'[p] = "idle" /\ ~Rotating(p)' /\ ~Replacing(p)'
      /\ UNCHANGED <<keyFile, rivals, torn>>
  BY EndAside DEF VerifyFails, Rename, history, OwnerInv, Replacing
<1>3. /\ fd' \in [Procs -> {"none", "vault", "temp", "gone"}]
      /\ fd'[p] = "none"
      /\ \A q \in Procs : q # p =>
           fd'[q] = fd[q] \/ (fd[q] # "none" /\ fd'[q] \notin {"none", "temp"})
      /\ \A q \in Procs : fd'[q] = "vault" => fd[q] \in {"vault", "temp"}
  BY <1>1 DEF VerifyFails, Rename
<1>4. Lasting \subseteq Lasting'
  BY <1>2, LastingGrows
<1>5. ProcOk(p)'
  BY <1>2, <1>3 DEF ProcOk
<1>6. ProcInv'
  BY <1>2, <1>3, <1>5, ProcFrame DEF OwnerInv
<1>7. \A q \in Procs : q # p => (Rotating(q)' <=> Rotating(q)) /\ pc'[q] = pc[q]
  BY <1>2, AsideKeeps
<1>8. ASSUME ~rivals
      PROVE  /\ \A q \in Procs : fd'[q] = "vault" => ~Rotating(q)'
             /\ \A q \in Procs : pc'[q] = "renaming" => OpenableBy(temp', {Brings(q)'})
             /\ \A q \in Procs : pc'[q] # "idle" => Brings(q)' \in Lasting'
             /\ vault' = Missing \/ BeingWritten' \/ torn' \/ OpenableBy(vault', Lasting')
  <2>1. /\ \A q, r \in Procs : Rotating(q) /\ Rotating(r) => q = r
        /\ \A q \in Procs : pc[q] = "renaming" => OpenableBy(temp, {Brings(q)})
        /\ \A q \in Procs : pc[q] # "idle" => Brings(q) \in Lasting
        /\ vault = Missing \/ BeingWritten \/ torn \/ OpenableBy(vault, Lasting)
    BY <1>8 DEF OwnerInv, OpenInv
  <2>2. \A q \in Procs : ~Rotating(q)'
    BY <1>1, <1>2, <1>7, <2>1
  <2>3. \A q \in Procs : pc'[q] # "renaming"
    BY <1>6, <2>2 DEF ProcInv, ProcOk, Rotating
  <2>4. vault' = Missing \/ BeingWritten' \/ torn' \/ OpenableBy(vault', Lasting')
    <3>1. CASE VerifyFails(p)
      <4>1. vault' = vault /\ \A q \in Procs : fd[q] = "vault" => fd'[q] = "vault"
        BY <1>1, <3>1 DEF VerifyFails
      <4>2. BeingWritten => BeingWritten'
        BY <1>1, <1>2, <1>7, <4>1 DEF BeingWritten
      <4>3. QED
        BY <1>2, <1>4, <2>1, <4>1, <4>2, OpenableMonotone
    <3>2. CASE Rename(p)
      <4>1. vault' = temp /\ pc[p] = "renaming"
        BY <3>2 DEF Rename
      <4>2. Brings(p) \in Lasting' /\ OpenableBy(temp, {Brings(p)})
        BY <1>4, <2>1, <4>1
      <4>3. QED
        BY <4>1, <4>2, OpenableOne
    <3>3. QED
      BY <3>1, <3>2
  <2>5. \A q \in Procs : pc'[q] # "idle" => Brings(q)' \in Lasting'
    BY <1>2, <1>4, <1>8, BringsFrame DEF OwnerInv
  <2>6. QED
    BY <2>2, <2>3, <2>4, <2>5
<1>9. OpenInv'
  BY <1>2, <1>8, OpenFrame DEF OwnerInv
<1>10. QED
  BY <1>6, <1>9

\* A crash leaves the vault as it is; in the middle of a write in place that
\* is recorded.  One that leaves the key file empty leaves the passphrase.
LEMMA FaultOwner ==
  ASSUME OwnerInv, NEW p \in Procs, Fault(p)
  PROVE  ProcInv' /\ OpenInv'
<1>1. fd \in [Procs -> {"none", "vault", "temp", "gone"}]
  BY DEF OwnerInv, ProcInv
<1>2. /\ Aside(p) /\ pc'[p] = "idle" /\ ~Rotating(p)' /\ ~Replacing(p)'
      /\ UNCHANGED <<vault, temp, keyFile, rivals>>
  BY EndAside DEF Fault, files, OwnerInv, Replacing
<1>3. /\ fd' \in [Procs -> {"none", "vault", "temp", "gone"}]
      /\ fd'[p] = "none" /\ \A q \in Procs : q # p => fd'[q] = fd[q]
  BY <1>1 DEF Fault
<1>4. Lasting \subseteq Lasting'
  BY <1>2, LastingGrows
<1>5. ProcOk(p)'
  BY <1>2, <1>3 DEF ProcOk
<1>6. ProcInv'
  BY <1>2, <1>3, <1>5, ProcFrame DEF OwnerInv
<1>7. \A q \in Procs : q # p => (Rotating(q)' <=> Rotating(q)) /\ Brings(q)' = Brings(q)
                                /\ pc'[q] = pc[q]
  BY <1>2, AsideKeeps
<1>8. /\ torn => torn'
      /\ pc[p] = "writing" /\ ~Rotating(p) /\ fd[p] = "vault" => torn'
  BY Zenon DEF Fault
<1>9. ASSUME ~rivals
      PROVE  /\ \A q \in Procs : fd'[q] = "vault" => ~Rotating(q)'
             /\ \A q \in Procs : pc'[q] = "renaming" => OpenableBy(temp', {Brings(q)'})
             /\ \A q \in Procs : pc'[q] # "idle" => Brings(q)' \in Lasting'
             /\ vault' = Missing \/ BeingWritten' \/ torn' \/ OpenableBy(vault', Lasting')
  <2>1. /\ \A q \in Procs : fd[q] = "vault" => ~Rotating(q)
        /\ \A q \in Procs : pc[q] = "renaming" => OpenableBy(temp, {Brings(q)})
        /\ vault = Missing \/ BeingWritten \/ torn \/ OpenableBy(vault, Lasting)
    BY <1>9 DEF OwnerInv, OpenInv
  <2>2. \A q \in Procs : fd'[q] = "vault" => ~Rotating(q)'
    BY <1>3, <1>7, <2>1
  <2>3. \A q \in Procs : pc'[q] = "renaming" => OpenableBy(temp', {Brings(q)'})
    BY <1>2, <1>7, <2>1
  <2>4. BeingWritten => BeingWritten' \/ torn'
    BY <1>3, <1>7, <1>8, <2>1 DEF BeingWritten
  <2>5. vault' = Missing \/ BeingWritten' \/ torn' \/ OpenableBy(vault', Lasting')
    BY <1>2, <1>4, <1>8, <2>1, <2>4, OpenableMonotone
  <2>6. \A q \in Procs : pc'[q] # "idle" => Brings(q)' \in Lasting'
    BY <1>2, <1>4, <1>9, BringsFrame DEF OwnerInv
  <2>7. QED
    BY <2>2, <2>3, <2>5, <2>6
<1>10. OpenInv'
  BY <1>2, <1>9, OpenFrame DEF OwnerInv
<1>11. QED
  BY <1>6, <1>10

LEMMA StepOwner ==
  ASSUME OwnerInv, [Next]_vars
  PROVE  ProcInv' /\ OpenInv'
<1>1. /\ pc \in [Procs -> Pcs] /\ op \in [Procs -> Operation \cup {None}]
      /\ out \in [Procs -> Content]
      /\ \A p \in Procs : pc[p] \in {"keyfile", "keywriting", "cleanup"} => op[p].kind = "apply"
  BY DEF OwnerInv, VInv, FileTypes, OpTypes
<1>2. \A p \in Procs : ProcOk(p)
  BY DEF OwnerInv, ProcInv
<1>3. ASSUME NEW p \in Procs, LoadVault(p) \/ BeginInit(p) PROVE ProcInv' /\ OpenInv'
  <2>1. PICK o : LoadBegins(p, o)
    BY <1>3, ChangeBegins DEF OwnerInv
  <2>2. /\ Begin(p, o) /\ pc' = [pc EXCEPT ![p] = "loaded"]
        /\ UNCHANGED <<vault, temp, keyFile, out, fd>>
        /\ o.kind \in {"init", "set", "delete", "rotate_passphrase", "rotate_column_key"}
        /\ o.kind = "rotate_passphrase" => o.new \in Pins
        /\ o.kind = "init" => o.cred \in Pins
        /\ o.cred \in Pins \cup ({keyFile} \ {None})
    BY <2>1 DEF LoadBegins, Rotations, Held
  <2>3. op'[p] = o
    BY <1>1, <2>2 DEF Begin
  <2>4. Brings(p)' = IF o.kind = "rotate_passphrase" THEN o.new ELSE o.cred
    BY <2>2, <2>3 DEF Brings, WriteCred
  <2>5. keyFile \in AdminKeys \cup {None}
    BY DEF OwnerInv, VInv, FileTypes
  <2>6. Brings(p)' \in Pins \/ (ForAdminKey(o) /\ Brings(p)' = keyFile)
    BY <2>2, <2>4, <2>5 DEF ForAdminKey
  <2>7. QED
    BY <2>2, <2>6, BeginOwner
<1>4. ASSUME NEW p \in Procs, RecoverPassphrase(p) \/ ApplyRecovery(p) PROVE ProcInv' /\ OpenInv'
  <2>1. PICK o : RecoveryBegins(p, o)
    BY <1>4, RecoverBegins, ApplyBegins DEF OwnerInv
  <2>2. /\ Begin(p, o) /\ pc' = [pc EXCEPT ![p] = "opening"]
        /\ UNCHANGED <<vault, temp, keyFile, fd>>
        /\ \A q \in Procs : q # p => out'[q] = out[q]
        /\ o.kind \in {"recover", "apply"} /\ o.new \in Pins /\ vault.ver = "v3"
        /\ OpenableBy(out'[p], {o.new})
    BY <2>1 DEF RecoveryBegins, OpenableBy, Loads
  <2>3. op'[p] = o
    BY <1>1, <2>2 DEF Begin
  <2>4. Brings(p)' = o.new
    BY <2>2, <2>3 DEF Brings
  <2>5. QED
    BY <2>2, <2>4, BeginOwner
<1>5. ASSUME NEW p \in Procs, PrepareSave(p) PROVE ProcInv' /\ OpenInv'
  <2> DEFINE f == Saved(Before(p), WriteCred(p), Edited(p))
  <2>1. /\ pc[p] = "loaded" /\ pc' = [pc EXCEPT ![p] = "opening"]
        /\ out' = [out EXCEPT ![p] = f]
        /\ UNCHANGED <<vault, temp, keyFile, op, fd, rivals, torn>>
    BY <1>5 DEF PrepareSave, files, history
  <2>2. Before(p) \in Content /\ WriteCred(p) \in Creds /\ Edited(p) \in SUBSET Entries
    BY <2>1, LoadedTypes DEF OwnerInv, VInv, FileTypes, Before
  <2>3. Loads(f, WriteCred(p))
    BY <1>5, <2>2, SavedLoads DEF PrepareSave
  <2> HIDE DEF f
  <2>4. op[p].kind \notin {"recover", "apply"} /\ fd[p] = "none"
    BY <1>2, <2>1 DEF ProcOk
  <2>5. /\ pc'[p] = "opening" /\ out'[p] = f /\ Aside(p) /\ op'[p] = op[p]
        /\ Brings(p)' = Brings(p) /\ Brings(p) = WriteCred(p)
    BY <1>1, <2>1, <2>4 DEF Aside, Brings, WriteCred
  <2>6. OpenableBy(f, {Brings(p)})
    BY <2>3, <2>5 DEF OpenableBy, Loads
  <2>7. ProcOk(p)'
    BY <1>2, <2>1, <2>4, <2>5, <2>6 DEF ProcOk
  <2>8. (Rotating(p)' => Rotating(p)) /\ ~Replacing(p)'
    BY <2>1, <2>4, <2>5 DEF Rotating, Replacing
  <2>9. QED
    BY <2>1, <2>5, <2>7, <2>8, GoOnOwner
<1>6. ASSUME NEW p \in Procs, SaveRefused(p) \/ RenameFails(p) \/ RemoveSession(p)
      PROVE  ProcInv' /\ OpenInv'
  <2>1. /\ End(p) /\ pc[p] \in {"loaded", "renaming", "cleanup"}
        /\ UNCHANGED <<vault, temp, keyFile, fd, rivals, torn>>
    BY <1>6 DEF SaveRefused, RenameFails, RemoveSession, files, history
  <2>2. Aside(p) /\ pc'[p] = "idle" /\ ~Rotating(p)' /\ fd[p] = "none"
    BY <1>2, <2>1, EndAside DEF OwnerInv, ProcOk
  <2>3. ProcOk(p)' /\ ~Replacing(p)'
    BY <2>1, <2>2 DEF ProcOk, Replacing
  <2>4. QED
    BY <2>1, <2>2, <2>3, GoOnOwner
<1>7. ASSUME NEW p \in Procs, Verify(p) PROVE ProcInv' /\ OpenInv'
  <2>1. /\ pc[p] = "verifying" /\ pc' = [pc EXCEPT ![p] = "renaming"]
        /\ Loads(temp, WriteCred(p))
        /\ UNCHANGED <<vault, temp, keyFile, op, out, fd, rivals, torn>>
    BY <1>7 DEF Verify, Verified, files, history
  <2>2. op[p].kind \in Rotations /\ fd[p] = "none"
    BY <1>2, <2>1 DEF ProcOk, Rotations
  <2>3. /\ pc'[p] = "renaming" /\ Aside(p) /\ op'[p] = op[p]
        /\ Brings(p)' = Brings(p) /\ Brings(p) = WriteCred(p)
    BY <1>1, <2>1, <2>2 DEF Aside, Brings, WriteCred, Rotations
  <2>4. ProcOk(p)' /\ ~Replacing(p)'
    BY <1>2, <2>1, <2>2, <2>3 DEF ProcOk, Replacing
  <2>5. Rotating(p)
    BY <2>1, <2>2 DEF Rotating
  <2>6. OpenableBy(temp, {Brings(p)'})
    BY <2>1, <2>3 DEF OpenableBy, Loads
  <2>7. QED
    BY <2>1, <2>3, <2>4, <2>5, <2>6, GoOnOwner
<1>8. ASSUME NEW p \in Procs, OpenKeyFile(p) \/ StoreKeyFile(p) PROVE ProcInv' /\ OpenInv'
  <2>1. /\ pc[p] \in {"keyfile", "keywriting"}
        /\ \E at \in {"keywriting", "cleanup"} : pc' = [pc EXCEPT ![p] = at]
        /\ UNCHANGED <<vault, temp, op, out, fd, rivals, torn>>
    BY <1>8 DEF OpenKeyFile, StoreKeyFile, history
  <2>2. /\ pc'[p] \in {"keywriting", "cleanup"} /\ Aside(p)
        /\ Brings(p)' = Brings(p) /\ fd[p] = "none" /\ op[p].kind = "apply"
    BY <1>1, <1>2, <2>1 DEF Aside, Brings, WriteCred, ProcOk
  <2>3. Replacing(p)
    BY <2>1, <2>2 DEF Replacing
  <2>4. ProcOk(p)'
    BY <1>2, <2>1, <2>2 DEF ProcOk
  <2>5. Rotating(p)' => Rotating(p)
    BY <2>1, <2>2 DEF Rotating
  <2>6. QED
    BY <2>1, <2>2, <2>3, <2>4, <2>5, GoOnOwner
<1>9. ASSUME UNCHANGED <<vault, temp, keyFile, local, history>> PROVE ProcInv' /\ OpenInv'
  <2>1. UNCHANGED <<vault, temp, keyFile, pc, op, out, fd, rivals, torn>>
    BY <1>9 DEF local, history
  <2>2. \A p \in Procs : /\ Brings(p)' = Brings(p) /\ (Rotating(p)' <=> Rotating(p))
                         /\ (Replacing(p)' <=> Replacing(p))
    BY <2>1 DEF Brings, WriteCred, Rotating, Replacing
  <2>3. ProcInv'
    BY <2>1, <2>2 DEF OwnerInv, ProcInv, ProcOk
  <2>4. Lasting' = Lasting /\ (BeingWritten' <=> BeingWritten)
    BY <2>1, <2>2 DEF Lasting, BeingWritten
  <2>5. OpenInv'
    BY <2>1, <2>2, <2>4 DEF OwnerInv, OpenInv
  <2>6. QED
    BY <2>3, <2>5
<1>10. ASSUME NEW p \in Procs, RequestRecovery(p) PROVE ProcInv' /\ OpenInv'
  BY <1>9, <1>10 DEF RequestRecovery
<1>11. CASE UNCHANGED vars
  BY <1>9, <1>11 DEF vars, files
<1>12. QED
  BY <1>3, <1>4, <1>5, <1>6, <1>7, <1>8, <1>10, <1>11,
     OpenFileOwner, WriteFileOwner, RotationEndsOwner, FaultOwner DEF Next

LEMMA OwnerInvariant == Spec => []OwnerInv
<1>1. OwnerInv /\ [Next]_vars => OwnerInv'
  BY StepVInv, StepOwner DEF OwnerInv
<1>2. QED
  BY <1>1, InitOwnerInv, PTL DEF Spec

(* A vault that was created opens with a passphrase or with the one admin   *)
(* key that admin_key.bin holds, save while it is written in place, after   *)
(* such a write was cut short, or after operations that spoil each other    *)
(* have overlapped.                                                         *)
THEOREM OwnerCanOpenHolds == Spec => []OwnerCanOpen
<1>1. OwnerInv => OwnerCanOpen
  <2> SUFFICES ASSUME OwnerInv, vault # Missing, ~BeingWritten, ~torn, ~rivals
               PROVE  \E c \in Held : Loads(vault, c)
    BY DEF OwnerCanOpen
  <2>1. vault \in Content /\ Agrees(vault) /\ OpenableBy(vault, Lasting)
    BY DEF OwnerInv, OpenInv, VInv, FileTypes, KeysInv
  <2>2. PICK c \in Held : vault.ver \in Real /\ Unlocks(vault, c)
    BY <2>1 DEF OpenableBy, Lasting, Held
  <2>3. KeyFor(vault, c) = vault.seal
    BY <2>1, <2>2, UnlocksType
  <2>4. QED
    BY <2>2, <2>3 DEF Loads
<1>2. QED
  BY <1>1, OwnerInvariant, PTL
-----------------------------------------------------------------------------
(* One operation at a time.                                                 *)

Holds(f, m) == Loads(f, m.cred) /\ f.entries = m.entries

Settled == (vault = Missing /\ expect.cred = None) \/ Holds(vault, expect)

(* What an operation that nobody disturbs is about to write is what it      *)
(* means, and what a rotation verifies is what it wrote.                    *)
Undisturbed(p) ==
  /\ pc[p] = "writing" => fd[p] = Target(p)
  /\ pc[p] = "loaded" => Edited(p) = Meant(p).entries
  /\ pc[p] \in {"opening", "writing", "verifying", "renaming"} => Holds(out[p], Meant(p))
  /\ pc[p] \in {"verifying", "renaming"} => temp = out[p]

AloneInv ==
  alone /\ ~torn =>
    /\ \A p, q \in Procs : pc[p] # "idle" /\ pc[q] # "idle" => p = q
    /\ \A p \in Procs : Undisturbed(p)
    /\ BeingWritten \/ Settled

DurableInv == OwnerInv /\ AloneInv

LEMMA InitAlone == Init => AloneInv
<1> SUFFICES ASSUME Init PROVE AloneInv
  OBVIOUS
<1>1. Settled
  <2> DEFINE pin == CHOOSE c \in Pins : TRUE
             s0 == Wrap(NoSlots, 0, pin, FirstKey)
             s1 == Wrap(s0, 1, Exported, FirstKey)
             s2 == Wrap(s1, 2, Dev, FirstKey)
             File(v, s) == [ver |-> v, slots |-> s, seal |-> FirstKey, entries |-> {}]
  <2>1. /\ pin \in Pins /\ FirstKey \in Keys /\ SlotOf(pin) = 0
        /\ NoSlots \in [0 .. 2 -> Slot \cup {None}]
        /\ Exported \in Creds /\ Dev \in Creds
    BY VaultAssumption DEF Creds, SlotOf, NoSlots
  <2> HIDE DEF pin
  <2>2. s0 \in [0 .. 2 -> Slot \cup {None}] /\ s0[0] # None /\ s0[0].cred = pin
        /\ s0[0].key = FirstKey
    BY <2>1, WrapPin
  <2> HIDE DEF s0
  <2>3. s1 \in [0 .. 2 -> Slot \cup {None}] /\ s1[0] = s0[0]
    BY <2>1, <2>2, WrapKeepsFirst
  <2> HIDE DEF s1
  <2>4. s2[0] = s0[0]
    <3>1. s1 \in [0 .. 2 -> Slot \cup {None}] /\ Dev \in Creds /\ FirstKey \in Keys
      BY <2>1, <2>3
    <3>2. s2[0] = s1[0]
      BY <3>1, WrapKeepsFirst
    <3>3. QED
      BY <2>3, <3>2
  <2> HIDE DEF s2
  <2>5. \A v \in Real : \A s \in {s0, s1, s2} :
          /\ Loads(File(v, s), pin) /\ File(v, s).slots[0].cred = pin
          /\ File(v, s).entries = {}
    BY <2>1, <2>2, <2>3, <2>4 DEF Loads, Unlocks, KeyFor
  <2>6. vault \in {Missing, File("v1", s0), File("v2", s0), File("v2", s1),
                   File("v3", s1), File("v3", s2)}
    BY DEF Init, FirstVaults, pin, s0, s1, s2
  <2> HIDE DEF File
  <2>7. vault = Missing \/ (Loads(vault, pin) /\ vault.slots[0].cred = pin /\ vault.entries = {})
    BY <2>5, <2>6 DEF Real
  <2>8. /\ expect.cred = IF vault = Missing THEN None ELSE vault.slots[0].cred
        /\ expect.entries = {}
    BY DEF Init
  <2>9. QED
    BY <2>7, <2>8 DEF Settled, Holds
<1>2. QED
  BY <1>1 DEF Init, AloneInv, Undisturbed

\* A file that loads is there.
LEMMA LoadedIsSettled ==
  ASSUME Settled, vault.ver \in Real
  PROVE  Holds(vault, expect)
<1>1. vault # Missing
  BY DEF Missing, Bare, Real
<1>2. QED
  BY <1>1 DEF Settled

\* While p works alone, nobody else writes.
LEMMA AloneFrame ==
  ASSUME VInv, NEW p \in Procs,
         alone' /\ ~torn' =>
           /\ \A q \in Procs : q # p => pc'[q] = "idle"
           /\ Undisturbed(p)'
           /\ BeingWritten' \/ Settled'
  PROVE  AloneInv'
BY DEF AloneInv, Undisturbed

LEMMA OthersIdle ==
  ASSUME AloneInv, alone, ~torn, NEW p \in Procs, pc[p] # "idle"
  PROVE  /\ \A q \in Procs : q # p => pc[q] = "idle"
         /\ Undisturbed(p)
         /\ BeingWritten <=> pc[p] = "writing" /\ fd[p] = "vault"
         /\ BeingWritten \/ Settled
BY DEF AloneInv, BeingWritten

LEMMA BeginsAlone ==
  ASSUME DurableInv, NEW p \in Procs, NEW o, Begin(p, o), alone', ~torn',
         NEW at \in {"loaded", "opening"}, pc' = [pc EXCEPT ![p] = at],
         UNCHANGED vault
  PROVE  /\ \A q \in Procs : q # p => pc'[q] = "idle"
         /\ pc'[p] = at /\ op'[p] = o /\ expect' = expect
         /\ Settled /\ Settled'
<1>1. (alone' => alone /\ \A q \in Procs : pc[q] = "idle") /\ (~torn' => ~torn)
  BY Zenon DEF Begin
<1>2. pc \in [Procs -> Pcs] /\ op \in [Procs -> Operation \cup {None}]
  BY DEF DurableInv, OwnerInv, VInv, FileTypes, OpTypes
<1>3. ~BeingWritten
  BY <1>1 DEF BeingWritten
<1>4. Settled
  BY <1>1, <1>3 DEF DurableInv, AloneInv
<1>5. expect' = expect
  BY DEF Begin
<1>6. QED
  BY <1>1, <1>2, <1>4, <1>5 DEF Begin, Settled, Holds

LEMMA ChangeBeginsAlone ==
  ASSUME DurableInv, NEW p \in Procs, LoadVault(p) \/ BeginInit(p)
  PROVE  AloneInv'
<1>1. PICK o : LoadBegins(p, o)
  BY ChangeBegins DEF DurableInv, OwnerInv
<1>2. ASSUME alone', ~torn'
      PROVE  /\ \A q \in Procs : q # p => pc'[q] = "idle"
             /\ Undisturbed(p)'
             /\ BeingWritten' \/ Settled'
  <2>1. /\ \A q \in Procs : q # p => pc'[q] = "idle"
        /\ pc'[p] = "loaded" /\ op'[p] = o /\ expect' = expect
        /\ Settled /\ Settled'
    BY <1>1, <1>2, BeginsAlone DEF LoadBegins
  <2>2. mem \in [Procs -> SUBSET Entries]
    BY DEF DurableInv, OwnerInv, VInv, FileTypes
  <2>3. IF o.kind = "init" THEN mem'[p] = {} ELSE mem'[p] = expect.entries
    <3>1. CASE o.kind = "init"
      BY <1>1, <2>2, <3>1 DEF LoadBegins
    <3>2. CASE o.kind # "init"
      <4>1. Holds(vault, expect)
        BY <1>1, <2>1, <3>2, LoadedIsSettled DEF LoadBegins, Loads
      <4>2. QED
        BY <1>1, <2>2, <3>2, <4>1 DEF LoadBegins, Holds
    <3>3. QED
      BY <3>1, <3>2
  <2>4. Edited(p)' = Meant(p)'.entries
    <3>1. o.kind \in {"init", "set", "delete", "rotate_passphrase", "rotate_column_key"}
      BY <1>1 DEF LoadBegins, Rotations
    <3>2. QED
      BY <2>1, <2>3, <3>1 DEF Edited, Meant, Brings
  <2>5. QED
    BY <2>1, <2>4 DEF Undisturbed
<1>3. QED
  BY <1>2, AloneFrame DEF DurableInv, OwnerInv

LEMMA RecoveryBeginsAlone ==
  ASSUME DurableInv, NEW p \in Procs, RecoverPassphrase(p) \/ ApplyRecovery(p)
  PROVE  AloneInv'
<1>1. PICK o : RecoveryBegins(p, o)
  BY RecoverBegins, ApplyBegins DEF DurableInv, OwnerInv
<1>2. ASSUME alone', ~torn'
      PROVE  /\ \A q \in Procs : q # p => pc'[q] = "idle"
             /\ Undisturbed(p)'
             /\ BeingWritten' \/ Settled'
  <2>1. /\ \A q \in Procs : q # p => pc'[q] = "idle"
        /\ pc'[p] = "opening" /\ op'[p] = o /\ expect' = expect
        /\ Settled /\ Settled'
    BY <1>1, <1>2, BeginsAlone DEF RecoveryBegins
  <2>2. Holds(vault, expect)
    BY <1>1, <2>1, LoadedIsSettled DEF RecoveryBegins, Real
  <2>3. Meant(p)'.cred = o.new /\ Meant(p)'.entries = expect.entries
    BY <1>1, <2>1 DEF Meant, Brings, RecoveryBegins
  <2>4. Holds(out'[p], Meant(p)')
    BY <1>1, <2>2, <2>3 DEF Holds, RecoveryBegins
  <2>5. QED
    BY <2>1, <2>4 DEF Undisturbed
<1>3. QED
  BY <1>2, AloneFrame DEF DurableInv, OwnerInv

\* An operation under way that leaves vault and expect alone.
LEMMA GoOnAlone ==
  ASSUME DurableInv, NEW p \in Procs, pc[p] # "idle", Aside(p),
         UNCHANGED <<vault, expect>>,
         alone' /\ ~torn' => /\ alone /\ ~torn
                             /\ ~(pc[p] = "writing" /\ fd[p] = "vault")
                             /\ Undisturbed(p) => Undisturbed(p)'
  PROVE  AloneInv'
<1>1. ASSUME alone', ~torn'
      PROVE  /\ \A q \in Procs : q # p => pc'[q] = "idle"
             /\ Undisturbed(p)'
             /\ BeingWritten' \/ Settled'
  <2>1. /\ \A q \in Procs : q # p => pc[q] = "idle"
        /\ Undisturbed(p)
        /\ BeingWritten <=> pc[p] = "writing" /\ fd[p] = "vault"
        /\ BeingWritten \/ Settled
    BY <1>1, OthersIdle DEF DurableInv
  <2>2. Settled
    BY <1>1, <2>1
  <2>3. Settled'
    BY <2>2 DEF Settled, Holds
  <2>4. QED
    BY <1>1, <2>1, <2>3 DEF Aside
<1>2. QED
  BY <1>1, AloneFrame DEF DurableInv, OwnerInv

LEMMA PrepareSaveAlone ==
  ASSUME DurableInv, NEW p \in Procs, PrepareSave(p)
  PROVE  AloneInv'
<1> DEFINE f == Saved(Before(p), WriteCred(p), Edited(p))
<1>1. /\ pc[p] = "loaded" /\ pc' = [pc EXCEPT ![p] = "opening"]
      /\ out' = [out EXCEPT ![p] = f]
      /\ UNCHANGED <<vault, temp, keyFile, op, mem, fd, expect, alone, torn>>
  BY DEF PrepareSave, files, history
<1>2. /\ Before(p) \in Content /\ WriteCred(p) \in Creds /\ Edited(p) \in SUBSET Entries
      /\ pc \in [Procs -> Pcs] /\ out \in [Procs -> Content]
      /\ op[p].kind \notin {"recover", "apply"}
  BY <1>1, LoadedTypes DEF DurableInv, OwnerInv, VInv, FileTypes, OpTypes, Before, ProcInv, ProcOk
<1>3. Loads(f, WriteCred(p)) /\ f.entries = Edited(p)
  BY <1>2, SavedLoads DEF PrepareSave
<1> HIDE DEF f
<1>4. pc'[p] = "opening" /\ out'[p] = f /\ Aside(p) /\ Meant(p)' = Meant(p)
  BY <1>1, <1>2 DEF Aside, Meant, Brings, WriteCred
<1>5. Meant(p).cred = WriteCred(p)
  BY <1>2 DEF Meant, Brings
<1>6. Undisturbed(p) => Undisturbed(p)'
  BY <1>1, <1>3, <1>4, <1>5 DEF Undisturbed, Holds
<1>7. QED
  BY <1>1, <1>4, <1>6, GoOnAlone

LEMMA EndAlone ==
  ASSUME DurableInv, NEW p \in Procs, End(p),
         UNCHANGED <<vault, keyFile, expect, alone>>,
         pc[p] # "idle", torn => torn',
         ~torn' => ~(pc[p] = "writing" /\ fd[p] = "vault" /\ ~Rotating(p))
  PROVE  AloneInv'
<1>1. Aside(p) /\ pc'[p] = "idle"
  BY EndAside DEF DurableInv, OwnerInv
<1>2. Undisturbed(p)'
  BY <1>1 DEF Undisturbed
<1>3. ASSUME alone', ~torn'
      PROVE  ~(pc[p] = "writing" /\ fd[p] = "vault")
  <2>1. Undisturbed(p)
    BY <1>3, OthersIdle DEF DurableInv
  <2>2. QED
    BY <1>3, <2>1 DEF Undisturbed, Target, Rotating
<1>4. QED
  BY <1>1, <1>2, <1>3, GoOnAlone

LEMMA OpenFileAlone ==
  ASSUME DurableInv, NEW p \in Procs, OpenFile(p)
  PROVE  AloneInv'
<1>1. /\ pc \in [Procs -> Pcs]
      /\ fd \in [Procs -> {"none", "vault", "temp", "gone"}]
      /\ pc[p] = "opening"
  BY DEF DurableInv, OwnerInv, VInv, FileTypes, OpTypes, ProcInv, OpenFile
<1>2. /\ pc'[p] = "writing" /\ fd'[p] = Target(p) /\ Aside(p)
      /\ UNCHANGED <<op, out, expect, alone, torn>>
  BY <1>1 DEF OpenFile, Aside, history
<1>3. Target(p)' = Target(p) /\ Meant(p)' = Meant(p)
  BY <1>2 DEF Target, Meant, Brings, WriteCred
<1>4. Undisturbed(p) => Undisturbed(p)'
  BY <1>1, <1>2, <1>3 DEF Undisturbed
<1>5. CASE Target(p) = "temp"
  <2>1. vault' = vault
    BY <1>5 DEF OpenFile
  <2>2. QED
    BY <1>1, <1>2, <1>4, <2>1, GoOnAlone
<1>6. CASE Target(p) # "temp"
  <2>1. BeingWritten'
    BY <1>2, <1>6 DEF BeingWritten, Target
  <2>2. ASSUME alone', ~torn'
        PROVE  /\ \A q \in Procs : q # p => pc'[q] = "idle"
               /\ Undisturbed(p)'
               /\ BeingWritten' \/ Settled'
    BY <1>1, <1>2, <1>4, <2>1, <2>2, OthersIdle DEF DurableInv, Aside
  <2>3. QED
    BY <2>2, AloneFrame DEF DurableInv, OwnerInv
<1>7. QED
  BY <1>5, <1>6

LEMMA WriteFileAlone ==
  ASSUME DurableInv, NEW p \in Procs, WriteFile(p)
  PROVE  AloneInv'
<1>1. /\ pc \in [Procs -> Pcs] /\ pc[p] = "writing" /\ UNCHANGED <<keyFile, alone, torn>>
  BY DEF DurableInv, OwnerInv, VInv, FileTypes, OpTypes, WriteFile
<1>2. Aside(p)
  BY <1>1, EndAside DEF WriteFile, Aside, DurableInv, OwnerInv
<1>3. ASSUME alone', ~torn'
      PROVE  /\ \A q \in Procs : q # p => pc'[q] = "idle"
             /\ Undisturbed(p)'
             /\ BeingWritten' \/ Settled'
  <2>1. /\ \A q \in Procs : q # p => pc[q] = "idle"
        /\ Undisturbed(p)
        /\ BeingWritten <=> pc[p] = "writing" /\ fd[p] = "vault"
        /\ BeingWritten \/ Settled
    BY <1>1, <1>3, OthersIdle DEF DurableInv
  <2>2. fd[p] = Target(p) /\ Holds(out[p], Meant(p))
    BY <1>1, <2>1 DEF Undisturbed
  <2>3. CASE Rotating(p)
    <3>1. /\ pc'[p] = "verifying" /\ UNCHANGED <<op, out, vault, expect>> /\ temp' = out[p]
          /\ fd[p] = "temp"
      BY <1>1, <2>2, <2>3 DEF WriteFile, Rotating, Target, Rotations
    <3>2. Meant(p)' = Meant(p)
      BY <3>1 DEF Meant, Brings, WriteCred
    <3>3. Undisturbed(p)'
      BY <2>2, <3>1, <3>2 DEF Undisturbed
    <3>4. Settled'
      BY <2>1, <3>1 DEF Settled, Holds
    <3>5. QED
      BY <1>2, <2>1, <3>3, <3>4 DEF Aside
  <2>4. CASE ~Rotating(p)
    <3>1. vault' = out[p] /\ expect' = Meant(p)
      BY <1>1, <2>2, <2>4 DEF WriteFile, Rotating, Target
    <3>2. pc'[p] \in {"idle", "keyfile"}
      BY <1>1, <2>4, EndAside DEF WriteFile, Rotating, DurableInv, OwnerInv
    <3>3. Settled'
      BY <2>2, <3>1 DEF Settled, Holds
    <3>4. Undisturbed(p)'
      BY <3>2 DEF Undisturbed
    <3>5. QED
      BY <1>2, <2>1, <3>3, <3>4 DEF Aside
  <2>5. QED
    BY <2>3, <2>4
<1>4. QED
  BY <1>3, AloneFrame DEF DurableInv, OwnerInv

LEMMA RenameAlone ==
  ASSUME DurableInv, NEW p \in Procs, Rename(p)
  PROVE  AloneInv'
<1>1. Aside(p) /\ pc'[p] = "idle" /\ pc[p] = "renaming" /\ UNCHANGED <<alone, torn>>
      /\ vault' = temp /\ expect' = Meant(p)
  BY EndAside DEF DurableInv, OwnerInv, Rename
<1>2. ASSUME alone', ~torn'
      PROVE  /\ \A q \in Procs : q # p => pc'[q] = "idle"
             /\ Undisturbed(p)'
             /\ BeingWritten' \/ Settled'
  <2>1. (\A q \in Procs : q # p => pc[q] = "idle") /\ Undisturbed(p)
    BY <1>1, <1>2, OthersIdle DEF DurableInv
  <2>2. Holds(temp, Meant(p))
    BY <1>1, <2>1 DEF Undisturbed
  <2>3. Settled'
    BY <1>1, <2>2 DEF Settled, Holds
  <2>4. Undisturbed(p)'
    BY <1>1 DEF Undisturbed
  <2>5. QED
    BY <1>1, <2>1, <2>3, <2>4 DEF Aside
<1>3. QED
  BY <1>2, AloneFrame DEF DurableInv, OwnerInv

LEMMA StepAlone ==
  ASSUME DurableInv, [Next]_vars
  PROVE  AloneInv'
<1>1. pc \in [Procs -> Pcs]
  BY DEF DurableInv, OwnerInv, VInv, FileTypes, OpTypes
<1>2. ASSUME NEW p \in Procs, SaveRefused(p) \/ RenameFails(p) \/ RemoveSession(p) \/ VerifyFails(p)
      PROVE  AloneInv'
  <2>1. /\ End(p) /\ UNCHANGED <<vault, keyFile, expect, alone, torn>>
        /\ pc[p] \in {"loaded", "renaming", "cleanup", "verifying"}
    BY <1>2 DEF SaveRefused, RenameFails, RemoveSession, VerifyFails, files, history
  <2>2. QED
    BY <2>1, EndAlone
<1>3. ASSUME NEW p \in Procs, Fault(p) PROVE AloneInv'
  <2>1. /\ End(p) /\ UNCHANGED <<vault, keyFile, expect, alone>> /\ pc[p] # "idle"
    BY <1>3 DEF Fault, files
  <2>2. /\ torn => torn'
        /\ pc[p] = "writing" /\ ~Rotating(p) /\ fd[p] = "vault" => torn'
    BY <1>3, Zenon DEF Fault
  <2>3. QED
    BY <2>1, <2>2, EndAlone
<1>4. ASSUME NEW p \in Procs, Verify(p) PROVE AloneInv'
  <2>1. /\ pc[p] = "verifying" /\ pc' = [pc EXCEPT ![p] = "renaming"]
        /\ UNCHANGED <<vault, temp, keyFile, op, out, fd, expect, alone, torn>>
    BY <1>4 DEF Verify, files, history
  <2>2. pc'[p] = "renaming" /\ Aside(p) /\ Meant(p)' = Meant(p)
    BY <1>1, <2>1 DEF Aside, Meant, Brings, WriteCred
  <2>3. Undisturbed(p) => Undisturbed(p)'
    BY <2>1, <2>2 DEF Undisturbed
  <2>4. QED
    BY <2>1, <2>2, <2>3, GoOnAlone
<1>5. ASSUME NEW p \in Procs, OpenKeyFile(p) \/ StoreKeyFile(p) PROVE AloneInv'
  <2>1. /\ pc[p] \in {"keyfile", "keywriting"}
        /\ \E at \in {"keywriting", "cleanup"} : pc' = [pc EXCEPT ![p] = at]
        /\ UNCHANGED <<vault, op, out, expect, alone, torn>>
    BY <1>5 DEF OpenKeyFile, StoreKeyFile, history
  <2>2. pc'[p] \in {"keywriting", "cleanup"} /\ Aside(p)
    BY <1>1, <2>1 DEF Aside
  <2>3. Undisturbed(p)'
    BY <2>2 DEF Undisturbed
  <2>4. QED
    BY <2>1, <2>2, <2>3, GoOnAlone
<1>6. ASSUME UNCHANGED <<vault, temp, local, history>> PROVE AloneInv'
  <2>1. UNCHANGED <<vault, temp, pc, op, mem, out, fd, expect, alone, torn>>
    BY <1>6 DEF local, history
  <2>2. (BeingWritten' <=> BeingWritten) /\ (Settled' <=> Settled)
    BY <2>1 DEF BeingWritten, Settled, Holds
  <2>3. \A p \in Procs : Undisturbed(p)' <=> Undisturbed(p)
    <3> SUFFICES ASSUME NEW p \in Procs PROVE Undisturbed(p)' <=> Undisturbed(p)
      OBVIOUS
    <3>1. Meant(p)' = Meant(p) /\ Edited(p)' = Edited(p) /\ Target(p)' = Target(p)
      BY <2>1 DEF Meant, Brings, WriteCred, Edited, Target
    <3>2. QED
      BY <2>1, <3>1 DEF Undisturbed
  <2>4. QED
    BY <2>1, <2>2, <2>3 DEF DurableInv, AloneInv
<1>7. ASSUME NEW p \in Procs, RequestRecovery(p) PROVE AloneInv'
  BY <1>6, <1>7 DEF RequestRecovery
<1>8. CASE UNCHANGED vars
  BY <1>6, <1>8 DEF vars, files
<1>9. QED
  BY <1>2, <1>3, <1>4, <1>5, <1>7, <1>8, ChangeBeginsAlone, RecoveryBeginsAlone,
     PrepareSaveAlone, OpenFileAlone, WriteFileAlone, RenameAlone DEF Next
-----------------------------------------------------------------------------
(* The slot for an admin key.                                               *)

OneSlot(f) == \A i, j \in 0 .. 2 : f.slots[i] # None /\ f.slots[j] # None => i = j
Fits(f) == f.slots[1] # None => f.slots[1].cred = keyFile
Storing == \E p \in Procs : pc[p] \in {"keyfile", "keywriting"}

(* The temporary file is always made anew, for one credential.              *)
TempInv ==
  /\ OneSlot(temp)
  /\ \A p \in Procs : pc[p] \in {"opening", "writing"} /\ Rotating(p) => OneSlot(out[p])

(* What an operation that nobody disturbs knows of the admin key: a         *)
(* recovery writes the slot before the key file.                            *)
KeyOk(p) ==
  /\ pc[p] = "loaded" => Brings(p) \in Pins \/ (Brings(p) \in AdminKeys /\ Brings(p) = keyFile)
  /\ pc[p] \in {"opening", "writing", "verifying", "renaming"} =>
       IF op[p].kind = "apply" THEN out[p].slots[1] # None /\ out[p].slots[1].cred = op[p].cred
                               ELSE Fits(out[p])
  /\ pc[p] \in {"keyfile", "keywriting"} =>
       vault.slots[1] # None /\ vault.slots[1].cred = op[p].cred

KeyInv ==
  alone /\ ~torn /\ ~unstored =>
    /\ \A p \in Procs : KeyOk(p)
    /\ BeingWritten \/ Storing \/ Fits(vault)

SlotInv == TempInv /\ KeyInv

LEMMA InitSlots == Init => SlotInv
<1> SUFFICES ASSUME Init PROVE SlotInv
  OBVIOUS
<1>1. TempInv
  BY DEF Init, TempInv, OneSlot, Missing, Bare, NoSlots
<1>2. Fits(vault)
  <2> DEFINE pin == CHOOSE c \in Pins : TRUE
             s0 == Wrap(NoSlots, 0, pin, FirstKey)
             s1 == Wrap(s0, 1, Exported, FirstKey)
             s2 == Wrap(s1, 2, Dev, FirstKey)
             File(v, s) == [ver |-> v, slots |-> s, seal |-> FirstKey, entries |-> {}]
  <2>1. NoSlots[1] = None /\ s0[1] = None
    BY DEF NoSlots, Wrap
  <2>2. s1[1].cred = Exported /\ s2[1].cred = Exported
    BY DEF NoSlots, Wrap
  <2> HIDE DEF s0, s1, s2
  <2>3. \A v \in Real : \A s \in {s0, s1, s2} : Fits(File(v, s))
    BY <2>1, <2>2 DEF Fits, Init
  <2>4. vault \in {Missing, File("v1", s0), File("v2", s0), File("v2", s1),
                   File("v3", s1), File("v3", s2)}
    BY DEF Init, FirstVaults, pin, s0, s1, s2
  <2>5. Fits(Missing)
    BY DEF Fits, Missing, Bare, NoSlots
  <2> HIDE DEF File
  <2>6. QED
    BY <2>3, <2>4, <2>5 DEF Real
<1>3. KeyInv
  BY <1>2 DEF Init, KeyInv, KeyOk
<1>4. QED
  BY <1>1, <1>3 DEF SlotInv

\* The slots that a save leaves, one by one.
LEMMA SavedSlots ==
  ASSUME NEW f \in Content, NEW c \in Creds, NEW es, CanSave(f, c), KeyLeft
  PROVE  /\ SlotOf(c) \in 0 .. 2 /\ Saved(f, c, es).slots[SlotOf(c)].cred = c
         /\ IF f.ver \in {"v2", "v3"}
            THEN /\ f.slots[SlotOf(c)] # None
                 /\ \A j \in 0 .. 2 : j # SlotOf(c) => Saved(f, c, es).slots[j] = f.slots[j]
            ELSE \A j \in 0 .. 2 : j # SlotOf(c) => Saved(f, c, es).slots[j] = None
<1>1. SlotOf(c) \in 0 .. 2
  BY SlotOfType
<1>2. CASE f.ver \in {"v2", "v3"}
  <2>1. Unlocks(f, c)
    BY <1>2 DEF CanSave
  <2>2. Saved(f, c, es).slots = Wrap(f.slots, SlotOf(c), c, KeyFor(f, c))
    BY <1>2 DEF Saved, Content
  <2>3. f.slots \in [0 .. 2 -> Slot \cup {None}]
    BY DEF Content
  <2>4. QED
    BY <1>1, <1>2, <2>1, <2>2, <2>3 DEF Wrap, Unlocks
<1>3. CASE f.ver \notin {"v2", "v3"}
  <2> DEFINE k == IF f.ver = "v1" /\ Unlocks(f, c) THEN KeyFor(f, c) ELSE Fresh
  <2>1. Saved(f, c, es).slots = Wrap(NoSlots, SlotOf(c), c, k)
    BY <1>3 DEF Saved
  <2> HIDE DEF k
  <2>2. QED
    BY <1>1, <1>3, <2>1 DEF Wrap, NoSlots
<1>4. QED
  BY <1>2, <1>3

\* A save over a file with one slot, or with slots that fit.
LEMMA SavedFits ==
  ASSUME NEW f \in Content, NEW c \in Creds, NEW es, CanSave(f, c), KeyLeft,
         c \in Pins \/ c = keyFile, OneSlot(f) \/ Fits(f)
  PROVE  Fits(Saved(f, c, es))
<1> DEFINE g == Saved(f, c, es)
<1>1. /\ SlotOf(c) \in 0 .. 2 /\ g.slots[SlotOf(c)].cred = c
      /\ IF f.ver \in {"v2", "v3"}
         THEN /\ f.slots[SlotOf(c)] # None
              /\ \A j \in 0 .. 2 : j # SlotOf(c) => g.slots[j] = f.slots[j]
         ELSE \A j \in 0 .. 2 : j # SlotOf(c) => g.slots[j] = None
  BY SavedSlots
<1> HIDE DEF g
<1>2. CASE SlotOf(c) = 1
  <2>1. c \notin Pins
    BY <1>2 DEF SlotOf
  <2>2. QED
    BY <1>1, <1>2, <2>1 DEF Fits, g
<1>3. CASE SlotOf(c) # 1
  <2>1. g.slots[1] = None \/ (g.slots[1] = f.slots[1] /\ f.slots[SlotOf(c)] # None)
    BY <1>1, <1>3
  <2>2. Fits(g)
    BY <1>1, <1>3, <2>1 DEF Fits, OneSlot
  <2>3. QED
    BY <2>2 DEF g
<1>4. QED
  BY <1>2, <1>3

LEMMA SavedOneSlot ==
  ASSUME NEW f \in Content, NEW c \in Creds, NEW es, CanSave(f, c), KeyLeft, OneSlot(f)
  PROVE  OneSlot(Saved(f, c, es))
<1> DEFINE g == Saved(f, c, es)
<1>1. /\ SlotOf(c) \in 0 .. 2
      /\ IF f.ver \in {"v2", "v3"}
         THEN /\ f.slots[SlotOf(c)] # None
              /\ \A j \in 0 .. 2 : j # SlotOf(c) => g.slots[j] = f.slots[j]
         ELSE \A j \in 0 .. 2 : j # SlotOf(c) => g.slots[j] = None
  BY SavedSlots
<1> HIDE DEF g
<1>2. \A j \in 0 .. 2 : j # SlotOf(c) => g.slots[j] = None
  BY <1>1 DEF OneSlot
<1>3. OneSlot(g)
  BY <1>1, <1>2 DEF OneSlot
<1>4. QED
  BY <1>3 DEF g

\* The temporary file keeps to one slot, whoever moves.
LEMMA StepTemp ==
  ASSUME DurableInv, TempInv, [Next]_vars
  PROVE  TempInv'
<1>1. /\ pc \in [Procs -> Pcs] /\ out \in [Procs -> Content]
      /\ vault \in Content /\ temp \in Content
      /\ \A p \in Procs : ProcOk(p)
  BY DEF DurableInv, OwnerInv, VInv, FileTypes, OpTypes, ProcInv
<1>2. OneSlot(Missing) /\ OneSlot(Short)
  BY DEF OneSlot, Missing, Short, Bare, NoSlots
<1>3. ASSUME NEW p \in Procs, Aside(p), OneSlot(temp'),
             pc'[p] \in {"opening", "writing"} /\ Rotating(p)' => OneSlot(out'[p])
      PROVE  TempInv'
  <2>1. ASSUME NEW q \in Procs, pc'[q] \in {"opening", "writing"}, Rotating(q)'
        PROVE  OneSlot(out'[q])
    <3>1. CASE q = p
      BY <1>3, <2>1, <3>1
    <3>2. CASE q # p
      <4>1. pc'[q] = pc[q] /\ out'[q] = out[q] /\ Rotating(q)
        BY <1>3, <2>1, <3>2, AsideKeeps
      <4>2. QED
        BY <2>1, <4>1 DEF TempInv
    <3>3. QED
      BY <3>1, <3>2
  <2>2. QED
    BY <1>3, <2>1 DEF TempInv
<1>4. ASSUME NEW p \in Procs, LoadVault(p) \/ BeginInit(p) PROVE TempInv'
  <2>1. PICK o : LoadBegins(p, o)
    BY <1>4, ChangeBegins DEF DurableInv, OwnerInv
  <2>2. pc'[p] = "loaded" /\ Aside(p) /\ temp' = temp
    BY <1>1, <2>1 DEF LoadBegins, Begin, Aside, DurableInv, OwnerInv, VInv, FileTypes, OpTypes
  <2>3. QED
    BY <1>3, <2>2 DEF TempInv
<1>5. ASSUME NEW p \in Procs, RecoverPassphrase(p) \/ ApplyRecovery(p) PROVE TempInv'
  <2>1. PICK o : RecoveryBegins(p, o)
    BY <1>5, RecoverBegins, ApplyBegins DEF DurableInv, OwnerInv
  <2>2. op'[p] = o /\ Aside(p) /\ temp' = temp /\ o.kind \in {"recover", "apply"}
    BY <1>1, <2>1 DEF RecoveryBegins, Begin, Aside, DurableInv, OwnerInv, VInv, FileTypes, OpTypes
  <2>3. ~Rotating(p)'
    BY <2>2 DEF Rotating, Rotations
  <2>4. QED
    BY <1>3, <2>2, <2>3 DEF TempInv
<1>6. ASSUME NEW p \in Procs, PrepareSave(p) PROVE TempInv'
  <2> DEFINE f == Saved(Before(p), WriteCred(p), Edited(p))
  <2>1. /\ pc[p] = "loaded" /\ pc' = [pc EXCEPT ![p] = "opening"]
        /\ out' = [out EXCEPT ![p] = f] /\ UNCHANGED <<temp, op>>
    BY <1>6 DEF PrepareSave, files
  <2>2. Aside(p) /\ out'[p] = f /\ (Rotating(p)' => Rotating(p))
    BY <1>1, <2>1 DEF Aside, Rotating
  <2>3. ASSUME Rotating(p) PROVE OneSlot(f)
    <3>1. Before(p) = temp
      BY <2>3 DEF Before, Target, Rotating
    <3>2. WriteCred(p) \in Creds
      BY <2>1, LoadedTypes DEF DurableInv, OwnerInv
    <3>3. QED
      BY <1>1, <1>6, <3>1, <3>2, SavedOneSlot DEF PrepareSave, TempInv
  <2> HIDE DEF f
  <2>4. QED
    BY <1>3, <2>1, <2>2, <2>3 DEF TempInv
<1>7. ASSUME NEW p \in Procs, OpenFile(p) PROVE TempInv'
  <2>1. /\ pc[p] = "opening" /\ pc' = [pc EXCEPT ![p] = "writing"] /\ UNCHANGED <<op, out>>
        /\ temp' \in {temp, Short}
    BY <1>7 DEF OpenFile
  <2>2. Aside(p) /\ (Rotating(p)' => Rotating(p)) /\ OneSlot(temp')
    BY <1>1, <1>2, <2>1 DEF Aside, Rotating, TempInv
  <2>3. QED
    BY <1>3, <2>1, <2>2 DEF TempInv
<1>8. ASSUME NEW p \in Procs, WriteFile(p) PROVE TempInv'
  <2>1. /\ pc[p] = "writing" /\ temp' = IF fd[p] = "temp" THEN out[p] ELSE temp
        /\ Aside(p) /\ pc'[p] \notin {"opening", "writing"}
    BY <1>1, <1>8, EndAside DEF WriteFile, Aside, DurableInv, OwnerInv
  <2>2. OneSlot(temp')
    BY <1>1, <2>1 DEF TempInv, ProcOk
  <2>3. QED
    BY <1>3, <2>1, <2>2
<1>9. ASSUME NEW p \in Procs, SaveRefused(p) \/ VerifyFails(p) \/ Rename(p) \/ RenameFails(p)
                              \/ RemoveSession(p) \/ Fault(p)
      PROVE  TempInv'
  <2>1. End(p) /\ temp' \in {temp, Missing}
    BY <1>9 DEF SaveRefused, VerifyFails, Rename, RenameFails, RemoveSession, Fault, files
  <2>2. Aside(p) /\ pc'[p] = "idle" /\ OneSlot(temp')
    BY <1>2, <2>1, EndAside DEF DurableInv, OwnerInv, TempInv
  <2>3. QED
    BY <1>3, <2>2
<1>10. ASSUME NEW p \in Procs, Verify(p) \/ OpenKeyFile(p) \/ StoreKeyFile(p) PROVE TempInv'
  <2>1. /\ \E at \in {"renaming", "keywriting", "cleanup"} : pc' = [pc EXCEPT ![p] = at]
        /\ UNCHANGED <<temp, op, out>>
    BY <1>10 DEF Verify, OpenKeyFile, StoreKeyFile, files
  <2>2. Aside(p) /\ pc'[p] \notin {"opening", "writing"}
    BY <1>1, <2>1 DEF Aside
  <2>3. QED
    BY <1>3, <2>1, <2>2 DEF TempInv
<1>11. ASSUME UNCHANGED <<temp, pc, op, out>> PROVE TempInv'
  <2>1. \A p \in Procs : Rotating(p)' <=> Rotating(p)
    BY <1>11 DEF Rotating
  <2>2. QED
    BY <1>11, <2>1 DEF TempInv, OneSlot
<1>12. QED
  BY <1>4, <1>5, <1>6, <1>7, <1>8, <1>9, <1>10, <1>11 DEF Next, RequestRecovery, vars, files, local

\* While p works alone, the rest is what KeyInv says of p and of the vault.
LEMMA KeyFrame ==
  ASSUME KeyInv, NEW p \in Procs, Aside(p),
         alone' /\ ~torn' /\ ~unstored' =>
           /\ alone /\ ~torn /\ ~unstored
           /\ \A q \in Procs : q # p => pc[q] = "idle"
           /\ KeyOk(p)'
           /\ BeingWritten' \/ Storing' \/ Fits(vault)'
  PROVE  KeyInv'
<1> SUFFICES ASSUME alone', ~torn', ~unstored'
             PROVE  (\A q \in Procs : KeyOk(q)') /\ (BeingWritten' \/ Storing' \/ Fits(vault)')
  BY DEF KeyInv
<1>1. ASSUME NEW q \in Procs, q # p PROVE KeyOk(q)'
  <2>1. pc'[q] = "idle"
    BY <1>1, AsideKeeps
  <2>2. QED
    BY <2>1 DEF KeyOk
<1>2. QED
  BY <1>1

\* What is known before a step of p that works alone.
LEMMA KeyKnown ==
  ASSUME DurableInv, KeyInv, alone, ~torn, ~unstored, NEW p \in Procs, pc[p] # "idle"
  PROVE  /\ \A q \in Procs : q # p => pc[q] = "idle"
         /\ KeyOk(p) /\ Undisturbed(p)
         /\ \/ pc[p] = "writing" /\ fd[p] = "vault"
            \/ pc[p] \in {"keyfile", "keywriting"}
            \/ Fits(vault)
<1>1. /\ \A q \in Procs : q # p => pc[q] = "idle"
      /\ Undisturbed(p)
      /\ BeingWritten <=> pc[p] = "writing" /\ fd[p] = "vault"
  BY OthersIdle DEF DurableInv
<1>2. Storing => pc[p] \in {"keyfile", "keywriting"}
  BY <1>1 DEF Storing
<1>3. KeyOk(p) /\ (BeingWritten \/ Storing \/ Fits(vault))
  BY DEF KeyInv
<1>4. QED
  BY <1>1, <1>2, <1>3

LEMMA BeginsKey ==
  ASSUME DurableInv, KeyInv, NEW p \in Procs, NEW o, Begin(p, o), UNCHANGED <<vault, keyFile>>,
         NEW at \in {"loaded", "opening"}, pc' = [pc EXCEPT ![p] = at],
         \A q \in Procs : q # p => out'[q] = out[q],
         Fits(vault) => KeyOk(p)'
  PROVE  KeyInv'
<1>1. /\ alone' => alone /\ \A q \in Procs : pc[q] = "idle"
      /\ torn' = torn /\ unstored' = unstored
  BY Zenon DEF Begin
<1>2. Aside(p)
  BY DEF Begin, Aside, DurableInv, OwnerInv, VInv, FileTypes, OpTypes
<1>3. ASSUME alone', ~torn', ~unstored'
      PROVE  KeyOk(p)' /\ Fits(vault)'
  <2>1. ~BeingWritten /\ ~Storing
    BY <1>1, <1>3 DEF BeingWritten, Storing
  <2>2. Fits(vault)
    BY <1>1, <1>3, <2>1 DEF KeyInv
  <2>3. QED
    BY <2>2 DEF Fits
<1>4. QED
  BY <1>1, <1>2, <1>3, KeyFrame

\* An operation goes on, or ends, and leaves the vault and the key file.
LEMMA GoOnKey ==
  ASSUME DurableInv, KeyInv, NEW p \in Procs, pc[p] # "idle", Aside(p),
         UNCHANGED <<vault, keyFile>>,
         alone' /\ ~torn' /\ ~unstored' =>
           /\ alone /\ ~torn /\ ~unstored
           /\ ~(pc[p] = "writing" /\ fd[p] = "vault") /\ pc[p] \notin {"keyfile", "keywriting"}
           /\ KeyOk(p) /\ Undisturbed(p) /\ Fits(vault) => KeyOk(p)'
  PROVE  KeyInv'
<1>1. ASSUME alone', ~torn', ~unstored'
      PROVE  /\ \A q \in Procs : q # p => pc[q] = "idle"
             /\ KeyOk(p)' /\ Fits(vault)'
  <2>1. /\ \A q \in Procs : q # p => pc[q] = "idle"
        /\ KeyOk(p) /\ Undisturbed(p) /\ Fits(vault)
    BY <1>1, KeyKnown
  <2>2. QED
    BY <1>1, <2>1 DEF Fits
<1>2. QED
  BY <1>1, KeyFrame

LEMMA StepKey ==
  ASSUME DurableInv, SlotInv, [Next]_vars
  PROVE  KeyInv'
<1>1. /\ pc \in [Procs -> Pcs] /\ op \in [Procs -> Operation \cup {None}]
      /\ out \in [Procs -> Content] /\ vault \in Content /\ temp \in Content
      /\ keyFile \in AdminKeys \cup {None}
      /\ \A p \in Procs : ProcOk(p) /\ (pc[p] \in {"keyfile", "keywriting"} => op[p].kind = "apply")
  BY DEF DurableInv, OwnerInv, VInv, FileTypes, OpTypes, ProcInv
<1>2. ASSUME NEW p \in Procs, LoadVault(p) \/ BeginInit(p) PROVE KeyInv'
  <2>1. PICK o : LoadBegins(p, o)
    BY <1>2, ChangeBegins DEF DurableInv, OwnerInv
  <2>2. pc'[p] = "loaded" /\ op'[p] = o
    BY <1>1, <2>1 DEF LoadBegins, Begin
  <2>3. Brings(p)' = IF o.kind = "rotate_passphrase" THEN o.new ELSE o.cred
    BY <2>1, <2>2 DEF Brings, WriteCred, LoadBegins, Rotations
  <2>4. KeyOk(p)'
    BY <1>1, <2>1, <2>2, <2>3 DEF KeyOk, LoadBegins, Held
  <2>5. QED
    BY <2>1, <2>4, BeginsKey DEF LoadBegins, SlotInv
<1>3. ASSUME NEW p \in Procs, RecoverPassphrase(p) \/ ApplyRecovery(p) PROVE KeyInv'
  <2>1. PICK o : RecoveryBegins(p, o)
    BY <1>3, RecoverBegins, ApplyBegins DEF DurableInv, OwnerInv
  <2>2. pc'[p] = "opening" /\ op'[p] = o /\ keyFile' = keyFile
    BY <1>1, <2>1 DEF RecoveryBegins, Begin
  <2>3. Fits(vault) => KeyOk(p)'
    BY <2>1, <2>2 DEF KeyOk, RecoveryBegins, Fits
  <2>4. QED
    BY <2>1, <2>3, BeginsKey DEF RecoveryBegins, SlotInv
<1>4. ASSUME NEW p \in Procs, PrepareSave(p) PROVE KeyInv'
  <2> DEFINE f == Saved(Before(p), WriteCred(p), Edited(p))
  <2>1. /\ pc[p] = "loaded" /\ pc' = [pc EXCEPT ![p] = "opening"]
        /\ out' = [out EXCEPT ![p] = f]
        /\ UNCHANGED <<vault, temp, keyFile, op, fd, alone, torn, unstored>>
    BY <1>4 DEF PrepareSave, files, history
  <2>2. op[p].kind \notin {"recover", "apply"} /\ WriteCred(p) = Brings(p)
    BY <1>1, <2>1 DEF ProcOk, Brings
  <2>3. Aside(p) /\ pc'[p] = "opening" /\ op'[p] = op[p] /\ out'[p] = f
    BY <1>1, <2>1 DEF Aside
  <2>4. ASSUME KeyOk(p), Fits(vault) PROVE Fits(f)
    <3>1. Before(p) \in Content /\ WriteCred(p) \in Creds
      BY <1>1, <2>1, LoadedTypes DEF Before, DurableInv, OwnerInv
    <3>2. WriteCred(p) \in Pins \/ WriteCred(p) = keyFile
      BY <2>1, <2>2, <2>4 DEF KeyOk
    <3>3. OneSlot(Before(p)) \/ Fits(Before(p))
      BY <2>4 DEF Before, SlotInv, TempInv
    <3>4. QED
      BY <1>4, <3>1, <3>2, <3>3, SavedFits DEF PrepareSave
  <2> HIDE DEF f
  <2>5. KeyOk(p) /\ Fits(vault) => KeyOk(p)'
    BY <2>1, <2>2, <2>3, <2>4 DEF KeyOk, Fits
  <2>6. QED
    BY <2>1, <2>3, <2>5, GoOnKey DEF SlotInv
<1>5. ASSUME NEW p \in Procs, OpenFile(p) PROVE KeyInv'
  <2>1. /\ pc[p] = "opening" /\ pc' = [pc EXCEPT ![p] = "writing"]
        /\ fd' = [fd EXCEPT ![p] = Target(p)]
        /\ UNCHANGED <<keyFile, op, out, alone, torn, unstored>>
        /\ vault' = IF Target(p) = "temp" THEN vault ELSE Short
    BY <1>5 DEF OpenFile, history
  <2>2. Aside(p) /\ pc'[p] = "writing"
    BY <1>1, <2>1 DEF Aside
  <2>3. KeyOk(p) => KeyOk(p)'
    BY <2>1, <2>2 DEF KeyOk, Fits
  <2>4. Fits(vault) => Fits(vault)'
    BY <2>1 DEF Fits, Short, Bare, NoSlots
  <2>5. ASSUME alone', ~torn', ~unstored'
        PROVE  /\ alone /\ ~torn /\ ~unstored
               /\ \A q \in Procs : q # p => pc[q] = "idle"
               /\ KeyOk(p)' /\ Fits(vault)'
    <3>1. alone /\ ~torn /\ ~unstored
      BY <2>1, <2>5
    <3>2. (\A q \in Procs : q # p => pc[q] = "idle") /\ KeyOk(p) /\ Fits(vault)
      BY <2>1, <3>1, KeyKnown DEF SlotInv
    <3>3. QED
      BY <2>3, <2>4, <3>1, <3>2
  <2>6. QED
    BY <2>2, <2>5, KeyFrame DEF SlotInv
<1>6. ASSUME NEW p \in Procs, WriteFile(p) PROVE KeyInv'
  <2>1. /\ pc[p] = "writing" /\ UNCHANGED <<keyFile, alone, torn, unstored>>
        /\ vault' = IF fd[p] = "vault" THEN out[p] ELSE vault
    BY <1>6 DEF WriteFile
  <2>2. Aside(p)
    BY <1>1, <1>6, EndAside DEF WriteFile, Aside, DurableInv, OwnerInv
  <2>3. ASSUME alone', ~torn', ~unstored'
        PROVE  /\ alone /\ ~torn /\ ~unstored
               /\ \A q \in Procs : q # p => pc[q] = "idle"
               /\ KeyOk(p)'
               /\ Storing' \/ Fits(vault)'
    <3>1. alone /\ ~torn /\ ~unstored
      BY <2>1, <2>3
    <3>2. /\ \A q \in Procs : q # p => pc[q] = "idle"
          /\ KeyOk(p) /\ Undisturbed(p)
          /\ (pc[p] = "writing" /\ fd[p] = "vault") \/ Fits(vault)
      BY <2>1, <3>1, KeyKnown DEF SlotInv
    <3>3. fd[p] = Target(p)
      BY <2>1, <3>2 DEF Undisturbed
    <3>4. CASE op[p].kind \in Rotations
      <4>1. /\ pc'[p] = "verifying" /\ UNCHANGED <<op, out>> /\ vault' = vault
            /\ fd[p] = "temp" /\ op[p].kind # "apply"
        BY <1>1, <1>6, <2>1, <3>3, <3>4 DEF WriteFile, Target, Rotations
      <4>2. KeyOk(p)'
        BY <2>1, <3>2, <4>1 DEF KeyOk, Fits
      <4>3. Fits(vault)'
        BY <2>1, <3>2, <4>1 DEF Fits
      <4>4. QED
        BY <3>1, <3>2, <4>2, <4>3
    <3>5. CASE op[p].kind = "apply"
      <4>1. /\ pc'[p] = "keyfile" /\ UNCHANGED <<op, out>> /\ vault' = out[p]
        BY <1>1, <1>6, <2>1, <3>3, <3>5 DEF WriteFile, Target, Rotations
      <4>2. KeyOk(p)'
        BY <2>1, <3>2, <3>5, <4>1 DEF KeyOk
      <4>3. Storing'
        BY <4>1 DEF Storing
      <4>4. QED
        BY <3>1, <3>2, <4>2, <4>3
    <3>6. CASE op[p].kind \notin Rotations \cup {"apply"}
      <4>1. pc'[p] = "idle" /\ vault' = out[p]
        BY <1>1, <1>6, <2>1, <3>3, <3>6 DEF WriteFile, Target, End
      <4>2. KeyOk(p)'
        BY <4>1 DEF KeyOk
      <4>3. Fits(vault)'
        BY <2>1, <3>2, <3>6, <4>1 DEF KeyOk, Fits
      <4>4. QED
        BY <3>1, <3>2, <4>2, <4>3
    <3>7. QED
      BY <3>4, <3>5, <3>6
  <2>4. QED
    BY <2>2, <2>3, KeyFrame DEF SlotInv
<1>7. ASSUME NEW p \in Procs, Verify(p) PROVE KeyInv'
  <2>1. /\ pc[p] = "verifying" /\ pc' = [pc EXCEPT ![p] = "renaming"]
        /\ UNCHANGED <<vault, keyFile, op, out, alone, torn, unstored>>
    BY <1>7 DEF Verify, files, history
  <2>2. Aside(p) /\ pc'[p] = "renaming"
    BY <1>1, <2>1 DEF Aside
  <2>3. KeyOk(p) => KeyOk(p)'
    BY <2>1, <2>2 DEF KeyOk, Fits
  <2>4. QED
    BY <2>1, <2>2, <2>3, GoOnKey DEF SlotInv
<1>8. ASSUME NEW p \in Procs, Rename(p) PROVE KeyInv'
  <2>1. /\ pc[p] = "renaming" /\ UNCHANGED <<keyFile, alone, torn, unstored>>
        /\ vault' = temp /\ End(p)
    BY <1>8 DEF Rename
  <2>2. Aside(p) /\ pc'[p] = "idle"
    BY <2>1, EndAside DEF DurableInv, OwnerInv
  <2>3. op[p].kind # "apply"
    BY <1>1, <2>1 DEF ProcOk, Rotations
  <2>4. ASSUME alone', ~torn', ~unstored'
        PROVE  /\ alone /\ ~torn /\ ~unstored
               /\ \A q \in Procs : q # p => pc[q] = "idle"
               /\ KeyOk(p)' /\ Fits(vault)'
    <3>1. alone /\ ~torn /\ ~unstored
      BY <2>1, <2>4
    <3>2. (\A q \in Procs : q # p => pc[q] = "idle") /\ KeyOk(p) /\ Undisturbed(p)
      BY <2>1, <3>1, KeyKnown DEF SlotInv
    <3>3. temp = out[p] /\ Fits(out[p])
      BY <2>1, <2>3, <3>2 DEF KeyOk, Undisturbed
    <3>4. Fits(vault)'
      BY <2>1, <3>3 DEF Fits
    <3>5. QED
      BY <2>2, <3>1, <3>2, <3>4 DEF KeyOk
  <2>5. QED
    BY <2>2, <2>4, KeyFrame DEF SlotInv
<1>9. ASSUME NEW p \in Procs, OpenKeyFile(p) PROVE KeyInv'
  <2>1. /\ pc[p] = "keyfile" /\ pc' = [pc EXCEPT ![p] = "keywriting"]
        /\ UNCHANGED <<vault, op, out, alone, torn, unstored>>
    BY <1>9 DEF OpenKeyFile, history
  <2>2. Aside(p) /\ pc'[p] = "keywriting"
    BY <1>1, <2>1 DEF Aside
  <2>3. KeyOk(p) => KeyOk(p)'
    BY <2>1, <2>2 DEF KeyOk
  <2>4. Storing'
    BY <2>2 DEF Storing
  <2>5. ASSUME alone, ~torn, ~unstored
        PROVE  (\A q \in Procs : q # p => pc[q] = "idle") /\ KeyOk(p)
    BY <2>1, <2>5, KeyKnown DEF SlotInv
  <2>6. QED
    BY <2>1, <2>2, <2>3, <2>4, <2>5, KeyFrame DEF SlotInv
<1>10. ASSUME NEW p \in Procs, StoreKeyFile(p) PROVE KeyInv'
  <2>1. /\ pc[p] = "keywriting" /\ pc' = [pc EXCEPT ![p] = "cleanup"]
        /\ keyFile' = op[p].cred
        /\ UNCHANGED <<vault, op, out, alone, torn, unstored>>
    BY <1>10 DEF StoreKeyFile, history
  <2>2. Aside(p) /\ pc'[p] = "cleanup"
    BY <1>1, <2>1 DEF Aside
  <2>3. KeyOk(p)'
    BY <2>2 DEF KeyOk
  <2>4. ASSUME alone, ~torn, ~unstored
        PROVE  (\A q \in Procs : q # p => pc[q] = "idle") /\ Fits(vault)'
    <3>1. (\A q \in Procs : q # p => pc[q] = "idle") /\ KeyOk(p)
      BY <2>1, <2>4, KeyKnown DEF SlotInv
    <3>2. QED
      BY <2>1, <3>1 DEF KeyOk, Fits
  <2>5. QED
    BY <2>1, <2>2, <2>3, <2>4, KeyFrame DEF SlotInv
<1>11. ASSUME NEW p \in Procs, SaveRefused(p) \/ VerifyFails(p) \/ RenameFails(p) \/ RemoveSession(p)
       PROVE  KeyInv'
  <2>1. /\ End(p) /\ UNCHANGED <<vault, keyFile, alone, torn, unstored>>
        /\ pc[p] \in {"loaded", "verifying", "renaming", "cleanup"}
    BY <1>11 DEF SaveRefused, VerifyFails, RenameFails, RemoveSession, files, history
  <2>2. Aside(p) /\ pc'[p] = "idle"
    BY <2>1, EndAside DEF DurableInv, OwnerInv
  <2>3. KeyOk(p)'
    BY <2>2 DEF KeyOk
  <2>4. QED
    BY <2>1, <2>2, <2>3, GoOnKey DEF SlotInv
<1>12. ASSUME NEW p \in Procs, Fault(p) PROVE KeyInv'
  <2>1. /\ End(p) /\ UNCHANGED <<vault, keyFile, alone>> /\ pc[p] # "idle"
    BY <1>12 DEF Fault, files
  <2>2. /\ ~torn' => ~torn /\ ~(pc[p] = "writing" /\ ~Rotating(p) /\ fd[p] = "vault")
        /\ ~unstored' => ~unstored /\ pc[p] \notin {"keyfile", "keywriting"}
    BY <1>12, Zenon DEF Fault
  <2>3. Aside(p) /\ pc'[p] = "idle"
    BY <2>1, EndAside DEF DurableInv, OwnerInv
  <2>4. KeyOk(p)'
    BY <2>3 DEF KeyOk
  <2>5. ASSUME alone, ~torn, ~unstored, pc[p] = "writing", fd[p] = "vault"
        PROVE  ~Rotating(p)
    <3>1. Undisturbed(p)
      BY <2>1, <2>5, KeyKnown DEF SlotInv
    <3>2. QED
      BY <2>5, <3>1 DEF Undisturbed, Target, Rotating
  <2>6. QED
    BY <2>1, <2>2, <2>3, <2>4, <2>5, GoOnKey DEF SlotInv
<1>13. ASSUME UNCHANGED <<vault, temp, keyFile, local, history>> PROVE KeyInv'
  <2>1. UNCHANGED <<vault, keyFile, pc, op, out, fd, alone, torn, unstored>>
    BY <1>13 DEF local, history
  <2>2. \A p \in Procs : KeyOk(p)' <=> KeyOk(p)
    <3> SUFFICES ASSUME NEW p \in Procs PROVE KeyOk(p)' <=> KeyOk(p)
      OBVIOUS
    <3>1. Brings(p)' = Brings(p)
      BY <2>1 DEF Brings, WriteCred
    <3>2. QED
      BY <2>1, <3>1 DEF KeyOk, Fits
  <2>3. /\ BeingWritten' <=> BeingWritten
        /\ Storing' <=> Storing
        /\ Fits(vault)' <=> Fits(vault)
    BY <2>1 DEF BeingWritten, Storing, Fits
  <2>4. QED
    BY <2>1, <2>2, <2>3 DEF SlotInv, KeyInv
<1>14. ASSUME NEW p \in Procs, RequestRecovery(p) PROVE KeyInv'
  BY <1>13, <1>14 DEF RequestRecovery
<1>15. CASE UNCHANGED vars
  BY <1>13, <1>15 DEF vars, files
<1>16. QED
  BY <1>2, <1>3, <1>4, <1>5, <1>6, <1>7, <1>8, <1>9, <1>10, <1>11, <1>12, <1>14, <1>15 DEF Next

(* As long as operations do not overlap, the vault holds what they amount   *)
(* to and opens with the credential the last one used, whatever formats,    *)
(* leftovers and crashes outside a write in place they go through; and its  *)
(* slot for an admin key is that of the key file, unless a recovery died    *)
(* before it had written that.                                              *)
THEOREM AloneIsDurableHolds == Spec => []AloneIsDurable
<1>1. Init => DurableInv /\ SlotInv
  BY InitOwnerInv, InitAlone, InitSlots DEF DurableInv
<1>2. DurableInv /\ SlotInv /\ [Next]_vars => (DurableInv /\ SlotInv)'
  BY StepVInv, StepOwner, StepAlone, StepTemp, StepKey DEF DurableInv, OwnerInv, SlotInv
<1>3. DurableInv /\ SlotInv => AloneIsDurable
  BY DEF DurableInv, AloneInv, Settled, Holds, SlotInv, KeyInv, Storing, Fits,
         KeyFileBehind, AloneIsDurable
<1>4. QED
  BY <1>1, <1>2, <1>3, PTL DEF Spec
=============================================================================
