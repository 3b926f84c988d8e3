----------------------------- MODULE VaultFile -----------------------------
(* The encrypted vault of hydragent-vault: one file that the daemon's       *)
(* handlers, the command line and the rotator read, change and write back   *)
(* without a lock.  A file has a payload, sealed with a master key, and     *)
(* slots, each with the master key wrapped for one credential.              *)
(*                                                                          *)
(* Ciphers are perfect: a slot opens for its own credential, a payload for  *)
(* its own key.  fs::write opens the file, which empties it, and then       *)
(* writes the bytes in one call; a process that dies in between leaves the  *)
(* file empty.  Writes go to the file that was opened, wherever a rename    *)
(* has put it since.                                                        *)
EXTENDS Naturals, FiniteSets

CONSTANTS
  Procs,        \* handler tasks and commands
  Pins,         \* passphrases
  AdminKeys,    \* keys an admin key file can hold
  Exported,     \* the one in the admin key file of the first vault
  Dev,          \* the developer's recovery key
  Names,        \* scopes of secrets
  ColumnKey,    \* the entry __column_key__
  Keys,         \* master keys
  FirstKey,     \* the master key of the first vault
  None,         \* an inactive slot; no session; no operation
  MaxOps,       \* bound on operations
  MaxFaults     \* bound on crashes and failed writes

ASSUME VaultAssumption ==
  /\ FirstKey \in Keys /\ Pins # {} /\ Exported \in AdminKeys
  /\ Pins \cap AdminKeys = {} /\ Dev \notin Pins \cup AdminKeys
  /\ None \notin Pins \cup AdminKeys \cup {Dev} \cup Keys
  /\ None \notin [cred : Pins \cup AdminKeys \cup {Dev}, key : Keys]
  /\ ColumnKey \notin Names
  /\ MaxOps \in Nat /\ MaxFaults \in Nat

VARIABLES
  vault,        \* the vault file
  temp,         \* the rotator's temporary file
  session,      \* the master key a pending recovery will deliver, or None
  keyFile,      \* the key in admin_key.bin, or None: it is empty
  pc, op,       \* pc[p], op[p]: where process p is, and in which operation
  mem,          \* mem[p]: the secrets it loaded
  out,          \* out[p]: the content it is about to write
  fd,           \* fd[p]: the file it has open for writing
  started,      \* bound: operations begun
  faults,       \* bound: crashes and failed writes
  expect,       \* history: what the operations so far amount to
  alone,        \* history: no two operations have overlapped
  rivals,       \* history: operations that spoil each other have overlapped
  unstored,     \* history: a recovery died before its key file was written
  torn          \* history: a write to the vault in place was cut short

files == <<vault, temp, session, keyFile>>
local == <<pc, op, mem, out, fd>>
history == <<started, faults, expect, alone, rivals, unstored, torn>>
vars == <<files, local, history>>

Creds == Pins \cup AdminKeys \cup {Dev}
Entries == Names \cup {ColumnKey}

Slot == [cred : Creds, key : Keys]
Real == {"v1", "v2", "v3"}
Content == [ver : Real \cup {"none", "empty"}, slots : [0 .. 2 -> Slot \cup {None}],
            seal : Keys, entries : SUBSET Entries]

(* The credential an operation is given; an application makes its own. *)
Rotations == {"rotate_passphrase", "rotate_column_key"}
Changes == {"init", "set", "delete", "recover", "apply"} \cup Rotations
Operation == [kind : Changes, cred : Creds, new : Pins \cup {None},
              name : Names \cup {None}]

TypeOK ==
  /\ vault \in Content /\ temp \in Content
  /\ session \in Keys \cup {None}
  /\ keyFile \in AdminKeys \cup {None}
  /\ pc \in [Procs -> {"idle", "loaded", "opening", "writing", "verifying",
                       "renaming", "keyfile", "keywriting", "cleanup"}]
  /\ op \in [Procs -> Operation \cup {None}]
  /\ mem \in [Procs -> SUBSET Entries]
  /\ out \in [Procs -> Content]
  /\ fd \in [Procs -> {"none", "vault", "temp", "gone"}]
  /\ started \in 0 .. MaxOps /\ faults \in 0 .. MaxFaults
  /\ expect \in [cred : Creds \cup {None}, entries : SUBSET Entries]
  /\ alone \in BOOLEAN /\ rivals \in BOOLEAN
  /\ unstored \in BOOLEAN /\ torn \in BOOLEAN
-----------------------------------------------------------------------------
NoSlots == [i \in 0 .. 2 |-> None]
Bare(v) == [ver |-> v, slots |-> NoSlots, seal |-> FirstKey, entries |-> {}]
Missing == Bare("none")
Short == Bare("empty")

(* Slot 0 takes passphrases, slot 1 admin keys, slot 2 the developer.  The  *)
(* key of a V1 file is derived from the passphrase itself: it is its slot 0. *)
SlotOf(c) == IF c \in Pins THEN 0 ELSE IF c \in AdminKeys THEN 1 ELSE 2
Unlocks(f, c) == f.slots[SlotOf(c)] # None /\ f.slots[SlotOf(c)].cred = c
KeyFor(f, c) == f.slots[SlotOf(c)].key
Loads(f, c) == f.ver \in Real /\ Unlocks(f, c) /\ KeyFor(f, c) = f.seal

Wrap(slots, i, c, k) == [slots EXCEPT ![i] = [cred |-> c, key |-> k]]

UsedKeys == {vault.seal, temp.seal, session} \cup {out[p].seal : p \in Procs}
Fresh == CHOOSE k \in Keys : k \notin UsedKeys
KeyLeft == \E k \in Keys : k \notin UsedKeys    \* bound: there is a new key

UsedAdminKeys ==
  {keyFile} \cup {op[p].cred : p \in {q \in Procs : pc[q] # "idle"}}
    \cup {f.slots[1].cred :
            f \in {g \in {vault, temp} \cup {out[p] : p \in Procs} : g.slots[1] # None}}
FreshAdminKey == CHOOSE a \in AdminKeys : a \notin UsedAdminKeys
AdminKeyLeft == \E a \in AdminKeys : a \notin UsedAdminKeys    \* bound

(* Mistakes, for the mutation runs: a save seals the payload with a new     *)
(* key, or only rewrites the slots of a file that is there; a rotation is   *)
(* done in place.                                                           *)
SavedWithFreshKey(f, c, es) ==
  [ver |-> IF f.ver = "v3" THEN "v3" ELSE "v2",
   slots |-> Wrap(f.slots, SlotOf(c), c, Fresh), seal |-> Fresh, entries |-> es]
SavedSlotsOnly(f, c, es) ==
  LET k == IF Unlocks(f, c) THEN KeyFor(f, c) ELSE Fresh
  IN  [ver |-> IF f.ver = "v3" THEN "v3" ELSE "v2", slots |-> Wrap(f.slots, SlotOf(c), c, k),
       seal |-> k, entries |-> IF f.ver \in Real THEN f.entries ELSE es]
TargetInPlace(p) == "vault"

(* What save writes over f.  A V3 file stays V3; every other becomes V2.    *)
(* Where there is no file to keep the slots of, or none that can be read,   *)
(* the only slot is that of the credential.                                 *)
CanSave(f, c) ==
  \/ f.ver \in {"v2", "v3"} /\ Unlocks(f, c)
  \/ f.ver = "v1" /\ c \in Pins
  \/ f.ver \in {"none", "empty"}

Saved(f, c, es) ==
  IF f.ver \in {"v2", "v3"}
  THEN [f EXCEPT !.slots = Wrap(f.slots, SlotOf(c), c, KeyFor(f, c)),
                 !.seal = KeyFor(f, c), !.entries = es]
  ELSE LET k == IF f.ver = "v1" /\ Unlocks(f, c) THEN KeyFor(f, c) ELSE Fresh
       IN  [ver |-> "v2", slots |-> Wrap(NoSlots, SlotOf(c), c, k),
            seal |-> k, entries |-> es]

(* The files there can be at first: none, one by an older release, one with *)
(* a passphrase only, with an admin key, and a V3 file with or without the  *)
(* developer's slot.                                                        *)
FirstVaults ==
  LET pin == CHOOSE c \in Pins : TRUE
      s0 == Wrap(NoSlots, 0, pin, FirstKey)
      s1 == Wrap(s0, 1, Exported, FirstKey)
      s2 == Wrap(s1, 2, Dev, FirstKey)
      File(v, s) == [ver |-> v, slots |-> s, seal |-> FirstKey, entries |-> {}]
  IN  {Missing, File("v1", s0), File("v2", s0), File("v2", s1),
       File("v3", s1), File("v3", s2)}

Init ==
  /\ vault \in FirstVaults /\ temp = Missing
  /\ session = None /\ keyFile = Exported
  /\ pc = [p \in Procs |-> "idle"] /\ op = [p \in Procs |-> None]
  /\ mem = [p \in Procs |-> {}] /\ out = [p \in Procs |-> Missing]
  /\ fd = [p \in Procs |-> "none"]
  /\ started = 0 /\ faults = 0
  /\ expect = [cred |-> IF vault = Missing THEN None ELSE vault.slots[0].cred,
               entries |-> {}]
  /\ alone = TRUE /\ rivals = FALSE /\ unstored = FALSE /\ torn = FALSE
-----------------------------------------------------------------------------
(* The credentials the owner can present. *)
Held == Pins \cup ({keyFile} \ {None})

Rotating(p) == pc[p] # "idle" /\ op[p].kind \in Rotations

(* Two operations spoil each other when both rotate, as they share the      *)
(* temporary file, and when one writes under an admin key, perhaps for it   *)
(* alone, while the other, a recovery, replaces the admin key file.         *)
ForAdminKey(o) ==
  o.kind \in {"set", "delete", "rotate_column_key"} /\ o.cred \in AdminKeys
Spoil(o, r) ==
  \/ o.kind \in Rotations /\ r.kind \in Rotations
  \/ o.kind = "apply" /\ ForAdminKey(r)
  \/ r.kind = "apply" /\ ForAdminKey(o)

Begin(p, o) ==
  /\ pc[p] = "idle" /\ started < MaxOps
  /\ started' = started + 1
  /\ op' = [op EXCEPT ![p] = o]
  /\ alone' = (alone /\ \A q \in Procs : pc[q] = "idle")
  /\ rivals' = (rivals \/ \E q \in Procs : pc[q] \notin {"idle", "cleanup"} /\ Spoil(o, op[q]))
  /\ UNCHANGED <<faults, expect, unstored, torn>>

(* The operation is over and its variables go out of scope. *)
End(p) ==
  /\ pc' = [pc EXCEPT ![p] = "idle"]
  /\ op' = [op EXCEPT ![p] = None]
  /\ mem' = [mem EXCEPT ![p] = {}]
  /\ out' = [out EXCEPT ![p] = Missing]

Op(kind, cred, new, name) == [kind |-> kind, cred |-> cred, new |-> new, name |-> name]

(* Set, delete and the rotations load the vault first; where that fails     *)
(* they end at once.                                                        *)
LoadVault(p) ==
  \E c \in Held : \E o \in
      {Op(kind, c, None, n) : kind \in {"set", "delete"}, n \in Names}
      \cup {Op("rotate_passphrase", c, new, None) : new \in Pins \ {c}}
      \cup {Op("rotate_column_key", c, None, None)} :
    /\ Loads(vault, c)
    /\ Begin(p, o)
    /\ mem' = [mem EXCEPT ![p] = vault.entries]
    /\ pc' = [pc EXCEPT ![p] = "loaded"]
    /\ UNCHANGED <<files, out, fd>>

(* init looks whether there is a file; save looks again. *)
BeginInit(p) ==
  \E c \in Pins :
    /\ vault = Missing
    /\ Begin(p, Op("init", c, None, None))
    /\ mem' = [mem EXCEPT ![p] = {}]
    /\ pc' = [pc EXCEPT ![p] = "loaded"]
    /\ UNCHANGED <<files, out, fd>>

Edited(p) ==
  CASE op[p].kind = "set" -> mem[p] \cup {op[p].name}
    [] op[p].kind = "delete" -> mem[p] \ {op[p].name}
    [] op[p].kind = "rotate_column_key" -> mem[p] \cup {ColumnKey}
    [] OTHER -> mem[p]

WriteCred(p) == IF op[p].kind = "rotate_passphrase" THEN op[p].new ELSE op[p].cred
Target(p) == IF op[p].kind \in Rotations THEN "temp" ELSE "vault"
Before(p) == IF Target(p) = "temp" THEN temp ELSE vault

(* save reads the file it is to replace.  The rotator saves to the          *)
(* temporary file, which an earlier rotation may have left behind.          *)
PrepareSave(p) ==
  /\ pc[p] = "loaded"
  /\ CanSave(Before(p), WriteCred(p)) /\ KeyLeft
  /\ out' = [out EXCEPT ![p] = Saved(Before(p), WriteCred(p), Edited(p))]
  /\ pc' = [pc EXCEPT ![p] = "opening"]
  /\ UNCHANGED <<files, op, mem, fd, history>>

SaveRefused(p) ==
  /\ pc[p] = "loaded"
  /\ ~CanSave(Before(p), WriteCred(p))
  /\ End(p)
  /\ UNCHANGED <<files, fd, history>>

(* recover_passphrase: the admin key gives slot 0 a new passphrase. *)
RecoverPassphrase(p) ==
  \E new \in Pins :
    /\ keyFile # None /\ vault.ver = "v3" /\ Unlocks(vault, keyFile)
    /\ Begin(p, Op("recover", keyFile, new, None))
    /\ out' = [out EXCEPT ![p] = [vault EXCEPT
                 !.slots = Wrap(vault.slots, 0, new, KeyFor(vault, keyFile))]]
    /\ pc' = [pc EXCEPT ![p] = "opening"]
    /\ UNCHANGED <<files, mem, fd>>

(* A recovery request stores its session; the developer's answer to it      *)
(* carries the master key that slot 2 has now.                              *)
RequestRecovery(p) ==
  /\ pc[p] = "idle"
  /\ vault.ver = "v3" /\ vault.slots[2] # None
  /\ session' = vault.slots[2].key
  /\ UNCHANGED <<vault, temp, keyFile, local, history>>

(* Its application wraps that key for a new passphrase, a new admin key and *)
(* again for the developer, over the payload as it is.                      *)
ApplyRecovery(p) ==
  \E new \in Pins :
    /\ session # None /\ vault.ver = "v3" /\ AdminKeyLeft
    /\ Begin(p, Op("apply", FreshAdminKey, new, None))
    /\ LET users == Wrap(Wrap(vault.slots, 0, new, session), 1, FreshAdminKey, session)
       IN  out' = [out EXCEPT ![p] = [vault EXCEPT !.slots =
             IF vault.slots[2] = None THEN users ELSE Wrap(users, 2, Dev, session)]]
    /\ pc' = [pc EXCEPT ![p] = "opening"]
    /\ UNCHANGED <<files, mem, fd>>
-----------------------------------------------------------------------------
OpenFile(p) ==
  /\ pc[p] = "opening"
  /\ fd' = [fd EXCEPT ![p] = Target(p)]
  /\ IF Target(p) = "temp" THEN temp' = Short /\ UNCHANGED vault
                           ELSE vault' = Short /\ UNCHANGED temp
  /\ pc' = [pc EXCEPT ![p] = "writing"]
  /\ UNCHANGED <<session, keyFile, op, mem, out, history>>

(* What the vault should hold, and the credential that should open it, once *)
(* p's operation has taken effect.                                          *)
Brings(p) == IF op[p].kind \in {"recover", "apply"} THEN op[p].new ELSE WriteCred(p)
Meant(p) ==
  [cred |-> Brings(p),
   entries |-> CASE op[p].kind = "set" -> expect.entries \cup {op[p].name}
                 [] op[p].kind = "delete" -> expect.entries \ {op[p].name}
                 [] op[p].kind = "rotate_column_key" -> expect.entries \cup {ColumnKey}
                 [] op[p].kind = "init" -> {}
                 [] OTHER -> expect.entries]

WriteFile(p) ==
  /\ pc[p] = "writing"
  /\ vault' = IF fd[p] = "vault" THEN out[p] ELSE vault
  /\ temp' = IF fd[p] = "temp" THEN out[p] ELSE temp
  /\ fd' = [fd EXCEPT ![p] = "none"]
  /\ IF op[p].kind \in Rotations \cup {"apply"}
     THEN /\ pc' = [pc EXCEPT ![p] = IF op[p].kind = "apply" THEN "keyfile" ELSE "verifying"]
          /\ UNCHANGED <<op, mem, out>>
     ELSE End(p)
  /\ expect' = IF Rotating(p) THEN expect ELSE Meant(p)
  /\ UNCHANGED <<session, keyFile, started, faults, alone, rivals, unstored, torn>>

(* The temporary file is read back; one that does not open, or has another  *)
(* number of entries, is removed.                                           *)
Verified(p) ==
  /\ Loads(temp, WriteCred(p))
  /\ Cardinality(temp.entries) = Cardinality(Edited(p))

Verify(p) ==
  /\ pc[p] = "verifying" /\ Verified(p)
  /\ pc' = [pc EXCEPT ![p] = "renaming"]
  /\ UNCHANGED <<files, op, mem, out, fd, history>>

VerifyFails(p) ==
  /\ pc[p] = "verifying" /\ ~Verified(p)
  /\ temp' = Missing
  /\ fd' = [q \in Procs |-> IF fd[q] = "temp" THEN "gone" ELSE fd[q]]
  /\ End(p)
  /\ UNCHANGED <<vault, session, keyFile, history>>

Rename(p) ==
  /\ pc[p] = "renaming" /\ temp # Missing
  /\ vault' = temp /\ temp' = Missing
  /\ fd' = [q \in Procs |-> CASE fd[q] = "vault" -> "gone"
                              [] fd[q] = "temp" -> "vault"
                              [] OTHER -> fd[q]]
  /\ End(p)
  /\ expect' = Meant(p)
  /\ UNCHANGED <<session, keyFile, started, faults, alone, rivals, unstored, torn>>

(* Another rotation has taken the temporary file away. *)
RenameFails(p) ==
  /\ pc[p] = "renaming" /\ temp = Missing
  /\ End(p)
  /\ UNCHANGED <<files, fd, history>>

(* A recovery stores the new admin key after the vault that needs it, over  *)
(* the key file of before.                                                  *)
OpenKeyFile(p) ==
  /\ pc[p] = "keyfile"
  /\ keyFile' = None
  /\ pc' = [pc EXCEPT ![p] = "keywriting"]
  /\ UNCHANGED <<vault, temp, session, op, mem, out, fd, history>>

StoreKeyFile(p) ==
  /\ pc[p] = "keywriting"
  /\ keyFile' = op[p].cred
  /\ pc' = [pc EXCEPT ![p] = "cleanup"]
  /\ UNCHANGED <<vault, temp, session, op, mem, out, fd, history>>

RemoveSession(p) ==
  /\ pc[p] = "cleanup"
  /\ session' = None
  /\ End(p)
  /\ UNCHANGED <<vault, temp, keyFile, fd, history>>

(* The process dies, or a write fails and the operation ends with an error: *)
(* either way what it has done so far stays.                                *)
Fault(p) ==
  /\ pc[p] # "idle" /\ faults < MaxFaults
  /\ faults' = faults + 1
  /\ torn' = (torn \/ (pc[p] = "writing" /\ ~Rotating(p) /\ fd[p] = "vault"))
  /\ unstored' = (unstored \/ pc[p] \in {"keyfile", "keywriting"})
  /\ End(p)
  /\ fd' = [fd EXCEPT ![p] = "none"]
  /\ UNCHANGED <<files, started, expect, alone, rivals>>

Next ==
  \E p \in Procs :
    \/ LoadVault(p) \/ BeginInit(p) \/ PrepareSave(p) \/ SaveRefused(p)
    \/ RecoverPassphrase(p) \/ RequestRecovery(p) \/ ApplyRecovery(p)
    \/ OpenFile(p) \/ WriteFile(p)
    \/ Verify(p) \/ VerifyFails(p) \/ Rename(p) \/ RenameFails(p)
    \/ OpenKeyFile(p) \/ StoreKeyFile(p) \/ RemoveSession(p)
    \/ Fault(p)

Spec == Init /\ [][Next]_vars
-----------------------------------------------------------------------------
(* Every slot of the vault, and of the temporary file, wraps the key that   *)
(* seals its payload: whichever credential opens it reads the same secrets, *)
(* whatever saves, recoveries and rotations have rewritten it meanwhile,    *)
(* although they keep slots they cannot open themselves.                    *)
SlotsAgree ==
  \A f \in {vault, temp} : \A i \in 0 .. 2 :
    f.slots[i] # None => f.slots[i].key = f.seal

BeingWritten == \E p \in Procs : pc[p] = "writing" /\ fd[p] = "vault"

(* A vault that was created can always be opened with a passphrase or the   *)
(* admin key in the key file, save while it is being written or after a     *)
(* write in place was cut short.  Concurrent saves do not make an           *)
(* exception, nor does a rotation or a recovery that dies; only two         *)
(* rotations at once do, and a recovery that replaces the admin key file    *)
(* while another operation writes under the admin key.                      *)
OwnerCanOpen ==
  \/ vault = Missing \/ BeingWritten \/ torn \/ rivals
  \/ \E c \in Held : Loads(vault, c)

KeyFileBehind ==
  unstored \/ \E p \in Procs : pc[p] \in {"keyfile", "keywriting"}

(* As long as operations do not overlap, the vault holds exactly what they  *)
(* amount to and opens with the credential the last one used: through       *)
(* changes of format and slots, and through crashes at any place but in a   *)
(* write in place, with the temporary files they leave behind.  Its slot    *)
(* for an admin key, if it has one, is that of the key file, unless a       *)
(* recovery died before it had written that.                                *)
AloneIsDurable ==
  \/ ~alone \/ torn \/ BeingWritten
  \/ vault = Missing /\ expect.cred = None
  \/ /\ Loads(vault, expect.cred) /\ vault.entries = expect.entries
     /\ vault.slots[1] # None /\ ~KeyFileBehind => vault.slots[1].cred = keyFile
=============================================================================
