-------------------------- MODULE ProjectFilesProofs --------------------------
(***************************************************************************)
(* Theorems about ProjectFiles, for any CLI processes and server requests, *)
(* any keys and secrets, and whatever the two are asked for.               *)
(***************************************************************************)
EXTENDS ProjectFiles, TLAPS

ActorRecord == [op : Ops, pc : Pcs, name : Names \cup {NoName},
                seen : SUBSET Names, pub : Keys \cup {NoKey}]

-----------------------------------------------------------------------------
(* Invariants *)

MakingPcs == {"key", "keygen", "keyfile", "rules", "rulesFile", "boot", "bootFile", "wrap",
              "wrapped", "toml", "record"}
WritingPcs == {"plain", "encrypt", "replace", "clean"}
UnlinkingPcs == {"unlinkKey", "unlinkRules", "unlinkSecrets", "forget"}

\* Where an actor stands tells which operation it performs, and that it has
\* what it needs to go on.
Placed(w, asked) ==
  /\ w.pc # "idle" => w.op \in asked
  /\ w.pc \in MakingPcs => w.op \in {"init", "up"}
  /\ w.pc \in UnlinkingPcs => w.op = "destroy"
  /\ w.pc = "copy" => w.op = "import"
  /\ w.pc = "read" => w.op \in Writers \cup {"list"}
  /\ w.pc \in WritingPcs => w.op \in {"set", "remove"}
  /\ w.pc = "editor" => w.op = "edit"
  /\ w.pc \in WritingPcs \cup {"read", "editor"} /\ w.op # "list" => w.name \in Names
  /\ w.pc \in {"keyfile", "rules", "rulesFile", "wrapped", "replace", "editor"} => w.pub \in Keys

Wants(a) == IF a \in Cli THEN scene.cli ELSE scene.web

PlaceInv == \A a \in Actors : /\ Placed(act[a], Wants(a))
                              /\ act[a].op = "edit" => a \in Cli

\* Cipher text is for a key, and there are no secrets but in cipher text.
CipherInv == /\ secrets.form = "cipher" => secrets.to \in Keys
             /\ secrets.form # "cipher" => secrets.names = {}

ShapeInv == TypeOK /\ PlaceInv /\ CipherInv

\* Two operations of which one makes or removes keys are never under way
\* together unless the history says so.
Alone(a, b) ==
  ~At(a, "idle") /\ ~At(b, "idle") /\ act[a].op \in Makers
    => act[b].op \notin Makers \cup Writers

AloneInv == ~hist.race => \A a, b \in Actors : a # b => Alone(a, b)

\* The secrets as a writer wants them.
Wanted(names, w) == IF w.op = "remove" THEN names \ {w.name} ELSE names \cup {w.name}

\* A writer has read the file it is about to replace, and what it is about to
\* acknowledge is in the file.
Current(w, names) ==
  /\ w.pc \in {"plain", "encrypt", "replace"} => w.seen = Wanted(names, w)
  /\ w.pc = "clean" /\ w.op = "set" => w.name \in names

OnlyServerWrites == scene.cli \cap (Writers \cup {"destroy"}) = {}

\* Who writes secrets has found cipher text.  Who makes the file has found none,
\* and is the only one.
Fits(w) ==
  /\ Current(w, secrets.names)
  /\ w.pc \in WritingPcs => secrets.form = "cipher"
  /\ w.pc \in BootPcs => secrets.form # "cipher"

Kept ==
  /\ hist.acked \subseteq secrets.names
  /\ \A a \in Actors : Fits(act[a])
  /\ \A a, b \in Actors : a # b => act[a].pc \notin BootPcs \/ act[b].pc \notin BootPcs

KeptInv == OnlyServerWrites /\ ~hist.twice => Kept

\* Those about to write a key find none, a writer has the key that is there
\* unless there is a record, and what a destroy has removed stays away until it
\* forgets the record.
Ready(w) ==
  /\ w.pc \in {"keygen", "keyfile", "copy"} => key = NoKey
  /\ w.pc \in {"rules", "rulesFile"} => w.pub = key
  /\ ~recorded /\ w.pc \in {"wrapped", "replace", "editor"} => w.pub = key
  /\ w.pc \in UnlinkingPcs => recorded
  /\ w.pc \in UnlinkingPcs \ {"unlinkKey"} => key = NoKey
  /\ w.pc \in UnlinkingPcs \ {"unlinkKey", "unlinkRules"} => rules = NoKey
  /\ w.pc = "forget" => secrets.form = "missing"

\* While there is no record, nothing is encrypted for another key than the one
\* that is there, and nothing will be.
OnlyThisKey ==
  ~recorded => /\ secrets.form = "cipher" => secrets.to = key
               /\ rules \in Keys => rules = key

RecordInv ==
  ~hist.fail /\ ~hist.race => OnlyThisKey /\ \A a \in Actors : Ready(act[a])

\* The secrets can be read, and written for the key they can be read with.
Sealed == /\ secrets.form = "cipher" /\ secrets.to = key
          /\ key \in Keys /\ rules = key

Settled == Sealed \/ (secrets.form = "missing" /\ rules = NoKey)

\* Where init is about to write the secrets or encrypts them, and where destroy
\* removes the files, they are not settled.
UnsettledPcs == {"boot"} \cup BootPcs \cup (UnlinkingPcs \ {"unlinkKey"})

\* Every other actor at work relies on it.
Steady(w) ==
  /\ w.pc = "rulesFile" => rules = NoKey
  /\ w.pc = "boot" =>
       Sealed \/ (secrets.form = "missing" /\ rules = key /\ key \in Keys)
  /\ w.pc = "bootFile" => secrets.form = "missing" /\ rules = key /\ key \in Keys
  /\ w.pc \in {"wrap", "wrapped"} => secrets.form = "plain" /\ rules = key /\ key \in Keys
  /\ w.pc \in {"plain", "encrypt", "replace", "editor"} => Sealed
  /\ w.pc \in {"wrapped", "replace", "editor"} => w.pub = key

OpenInv ==
  ~hist.crash /\ ~hist.fail /\ ~hist.race =>
    /\ Settled \/ \E a \in Actors : act[a].pc \in UnsettledPcs
    /\ \A a \in Actors : Steady(act[a])

-----------------------------------------------------------------------------
(* What the helpers of the actions do to an actor *)

\* The history forgets no crash, failure or overlap, and no file made twice.
Remembers ==
  /\ ~hist'.race => ~hist.race
  /\ ~hist'.twice => ~hist.twice
  /\ ~hist'.fail => ~hist.fail
  /\ ~hist'.crash => ~hist.crash

\* An actor that goes on keeps all but its place.
LEMMA GoingOn ==
  ASSUME TypeOK, NEW a \in Actors, NEW pc \in Pcs, Going(a, pc)
  PROVE  /\ act' \in [Actors -> ActorRecord]
         /\ act'[a] = [act[a] EXCEPT !.pc = pc]
         /\ act'[a].pc = pc /\ act'[a].op = act[a].op /\ act'[a].pub = act[a].pub
         /\ act'[a].seen = act[a].seen /\ act'[a].name = act[a].name
         /\ \A b \in Actors \ {a} : act'[b] = act[b]
<1>1. act \in [Actors -> ActorRecord]
  BY DEF TypeOK, ActorRecord
<1> QED BY <1>1 DEF Going, ActorRecord

\* One that goes on with a key keeps the rest.
GoesWithKey(a, pc, k) == act' = [act EXCEPT ![a] = [act[a] EXCEPT !.pc = pc, !.pub = k]]

LEMMA GoingWithKey ==
  ASSUME TypeOK, NEW a \in Actors, NEW pc \in Pcs, NEW k \in Keys, GoesWithKey(a, pc, k)
  PROVE  /\ act' \in [Actors -> ActorRecord]
         /\ act'[a].pc = pc /\ act'[a].op = act[a].op /\ act'[a].pub = k
         /\ act'[a].seen = act[a].seen /\ act'[a].name = act[a].name
         /\ \A b \in Actors \ {a} : act'[b] = act[b]
<1>1. act \in [Actors -> ActorRecord]
  BY DEF TypeOK, ActorRecord
<1> QED BY <1>1 DEF GoesWithKey, ActorRecord

\* One that ends is idle.
LEMMA EndingIdles ==
  ASSUME TypeOK, NEW a \in Actors, Ending(a)
  PROVE  /\ act' \in [Actors -> ActorRecord]
         /\ act'[a] = Idle
         /\ \A b \in Actors \ {a} : act'[b] = act[b]
<1>1. act \in [Actors -> ActorRecord]
  BY DEF TypeOK, ActorRecord
<1>2. Idle \in ActorRecord
  BY DEF Idle, ActorRecord, Ops, Pcs
<1> QED BY <1>1, <1>2 DEF Ending

\* One that begins stands at pc with a fresh record, and the history says
\* whether it overlaps with another.
LEMMA Beginning ==
  ASSUME TypeOK, NEW a \in Actors, NEW op \in Ops, NEW pc \in Pcs,
         NEW name \in Names \cup {NoName}, Begin(a, op, pc, name)
  PROVE  /\ act' \in [Actors -> ActorRecord]
         /\ act'[a].op = op /\ act'[a].pc = pc /\ act'[a].name = name
         /\ act'[a].seen = {} /\ act'[a].pub = NoKey
         /\ \A b \in Actors \ {a} : act'[b] = act[b]
         /\ hist' \in [crash : BOOLEAN, fail : BOOLEAN, race : BOOLEAN, twice : BOOLEAN,
                       ended : BOOLEAN, acked : SUBSET Names]
         /\ left' \in [ops : 0..MaxOps, mishaps : 0..MaxMishaps]
         /\ hist'.acked = hist.acked
         /\ Remembers
         /\ ~hist'.race => ~Overlaps(op)
<1>1. act \in [Actors -> ActorRecord]
  BY DEF TypeOK, ActorRecord
<1> DEFINE o == Overlaps(op)
<1>2. hist' = [hist EXCEPT !.race = hist.race \/ o]
  BY DEF Begin
<1> HIDE DEF o
<1>3. /\ hist'.acked = hist.acked
      /\ ~hist'.crash => ~hist.crash
      /\ ~hist'.fail => ~hist.fail
      /\ ~hist'.twice => ~hist.twice
      /\ hist' \in [crash : BOOLEAN, fail : BOOLEAN, race : BOOLEAN, twice : BOOLEAN,
                    ended : BOOLEAN, acked : SUBSET Names]
  BY <1>2 DEF TypeOK
<1>4. ~hist'.race => ~hist.race /\ ~o
  BY <1>2 DEF TypeOK
<1>5. /\ act' \in [Actors -> ActorRecord]
      /\ act'[a].op = op /\ act'[a].pc = pc /\ act'[a].name = name
      /\ act'[a].seen = {} /\ act'[a].pub = NoKey
      /\ \A b \in Actors \ {a} : act'[b] = act[b]
  <2>1. Idle \in ActorRecord /\ Idle.seen = {} /\ Idle.pub = NoKey
    BY DEF Idle, ActorRecord, Ops, Pcs
  <2> DEFINE w == [Idle EXCEPT !.op = op, !.pc = pc, !.name = name]
  <2>2. /\ w \in ActorRecord /\ w.op = op /\ w.pc = pc /\ w.name = name
        /\ w.seen = {} /\ w.pub = NoKey
    BY <2>1 DEF ActorRecord
  <2>3. act' = [act EXCEPT ![a] = w]
    BY DEF Begin
  <2> HIDE DEF w
  <2> QED BY <1>1, <2>2, <2>3
<1>6. left' \in [ops : 0..MaxOps, mishaps : 0..MaxMishaps]
  BY FilesAssumption DEF Begin, TypeOK
<1> QED BY <1>3, <1>4, <1>5, <1>6 DEF o, Remembers

\* All other changes of the history keep what it remembers.
LEMMA Remembering ==
  ASSUME TypeOK,
         \/ Same
         \/ hist' = [hist EXCEPT !.fail = TRUE]
         \/ hist' = [hist EXCEPT !.crash = TRUE]
         \/ \E x : hist' = [hist EXCEPT !.acked = x]
         \/ \E x : hist' = [hist EXCEPT !.ended = x]
         \/ \E x \in BOOLEAN : hist' = [hist EXCEPT !.twice = @ \/ x]
  PROVE  Remembers
<1>1. CASE Same
  BY <1>1 DEF Same, Remembers
<1>2. CASE hist' = [hist EXCEPT !.fail = TRUE] \/ hist' = [hist EXCEPT !.crash = TRUE]
  BY <1>2 DEF TypeOK, Remembers
<1>3. ASSUME NEW x, \/ hist' = [hist EXCEPT !.acked = x]
                    \/ hist' = [hist EXCEPT !.ended = x]
      PROVE  Remembers
  BY <1>3 DEF TypeOK, Remembers
<1>4. ASSUME NEW x \in BOOLEAN, hist' = [hist EXCEPT !.twice = @ \/ x] PROVE Remembers
  BY <1>4 DEF TypeOK, Remembers
<1> QED BY <1>1, <1>2, <1>3, <1>4

\* A call that fails, or an unlink that is passed over, leaves its mark.
LEMMA Failing ==
  ASSUME TypeOK, left.mishaps > 0,
         left' = [left EXCEPT !.mishaps = @ - 1],
         hist' = [hist EXCEPT !.fail = TRUE]
  PROVE  /\ hist' \in [crash : BOOLEAN, fail : BOOLEAN, race : BOOLEAN, twice : BOOLEAN,
                       ended : BOOLEAN, acked : SUBSET Names]
         /\ left' \in [ops : 0..MaxOps, mishaps : 0..MaxMishaps]
         /\ hist'.fail /\ hist'.acked = hist.acked
<1>1. hist' \in [crash : BOOLEAN, fail : BOOLEAN, race : BOOLEAN, twice : BOOLEAN,
                 ended : BOOLEAN, acked : SUBSET Names]
  BY DEF TypeOK
<1>2. left' \in [ops : 0..MaxOps, mishaps : 0..MaxMishaps]
  BY FilesAssumption DEF TypeOK
<1>3. hist'.fail = TRUE /\ hist'.acked = hist.acked
  BY DEF TypeOK
<1> QED BY <1>1, <1>2, <1>3

-----------------------------------------------------------------------------
(* Type correctness *)

\* The two halves of the type invariant: the files, and the actors with their
\* history.
FilesType ==
  /\ key \in Keys \cup {NoKey, Torn}
  /\ {rules, copy} \subseteq Keys \cup {NoKey, Torn}
  /\ secrets \in [form : {"missing", "plain", "cipher"}, to : Keys \cup {NoKey},
                  names : SUBSET Names]
  /\ toml \in {"missing", "torn", "valid"}
  /\ recorded \in BOOLEAN
  /\ used \subseteq Keys

RestType ==
  /\ act \in [Actors -> ActorRecord]
  /\ hist \in [crash : BOOLEAN, fail : BOOLEAN, race : BOOLEAN, twice : BOOLEAN,
               ended : BOOLEAN, acked : SUBSET Names]
  /\ left \in [ops : 0..MaxOps, mishaps : 0..MaxMishaps]

\* Together they are the type invariant.
LEMMA TypeParts == TypeOK <=> FilesType /\ RestType /\ scene \in Scenes
  BY DEF TypeOK, FilesType, RestType, ActorRecord

\* Nothing has happened yet.
LEMMA InitType == Init => TypeOK
<1> SUFFICES ASSUME Init PROVE TypeOK
  OBVIOUS
<1>1. Idle \in ActorRecord
  BY DEF Idle, ActorRecord, Ops, Pcs
<1>2. act \in [Actors -> ActorRecord]
  BY <1>1 DEF Init
<1>3. FilesType
  BY DEF Init, FilesType, NoFile
<1>4. left \in [ops : 0..MaxOps, mishaps : 0..MaxMishaps]
  BY FilesAssumption DEF Init
<1> QED BY <1>2, <1>3, <1>4, TypeParts DEF Init, RestType

\* What an actor that goes on, ends or begins does to its record and the
\* history is well typed; so are the failures.
LEMMA ActorType ==
  ASSUME TypeOK, NEW a \in Actors,
         \/ \E pc \in Pcs : Going(a, pc) /\ Same
         \/ Ending(a) /\ Same
         \/ Fails(a)
         \/ \E pc \in Pcs : Going(a, pc) /\ Passed
         \/ \E op \in Ops, pc \in Pcs, name \in Names \cup {NoName} :
              Begin(a, op, pc, name)
  PROVE  RestType'
<1> USE DEF RestType
<1>1. RestType
  BY TypeParts
<1>2. ASSUME NEW pc \in Pcs, Going(a, pc) /\ Same PROVE RestType'
  BY <1>1, <1>2, GoingOn DEF Same
<1>3. CASE Ending(a) /\ Same
  BY <1>1, <1>3, EndingIdles DEF Same
<1>4. CASE Fails(a)
  BY <1>4, EndingIdles, Failing DEF Fails
<1>5. ASSUME NEW pc \in Pcs, Going(a, pc) /\ Passed PROVE RestType'
  BY <1>5, GoingOn, Failing DEF Passed
<1>6. ASSUME NEW op \in Ops, NEW pc \in Pcs, NEW name \in Names \cup {NoName},
             Begin(a, op, pc, name)
      PROVE  RestType'
  BY <1>6, Beginning
<1> QED BY <1>2, <1>3, <1>4, <1>5, <1>6

\* Looking for the key gives the actor the one that is there, if it can be read.
LEMMA FindKeyDoes ==
  ASSUME TypeOK, NEW a \in Actors, FindKey(a)
  PROVE  /\ act' \in [Actors -> ActorRecord]
         /\ \A b \in Actors \ {a} : act'[b] = act[b]
         /\ \/ key = NoKey /\ act'[a].pc = "keygen" /\ act'[a].op = act[a].op
            \/ act'[a] = Idle
            \/ /\ key \in Keys
               /\ act'[a].pc = "rules" /\ act'[a].op = act[a].op /\ act'[a].pub = key
<1>1. act \in [Actors -> ActorRecord] /\ key \in Keys \cup {NoKey, Torn}
  BY DEF TypeOK, ActorRecord
<1>2. CASE key = NoKey
  <2>1. act' = [act EXCEPT ![a] = [act[a] EXCEPT !.pc = "keygen"]]
    BY <1>2 DEF FindKey
  <2> QED BY <1>1, <1>2, <2>1 DEF ActorRecord, Pcs
<1>3. CASE key = Torn
  <2>1. act' = [act EXCEPT ![a] = Idle]
    BY <1>3, FilesAssumption DEF FindKey
  <2>2. Ending(a)
    BY <2>1 DEF Ending
  <2> QED BY <2>2, EndingIdles
<1>4. CASE key \in Keys
  <2>1. GoesWithKey(a, "rules", key)
    BY <1>4, FilesAssumption DEF FindKey, GoesWithKey
  <2>2. "rules" \in Pcs
    BY DEF Pcs
  <2> QED BY <1>4, <2>1, <2>2, GoingWithKey
<1> QED BY <1>1, <1>2, <1>3, <1>4

\* Making a key ends, fails, or gives the actor one that was never used.
LEMMA KeygenDoes ==
  ASSUME TypeOK, NEW a \in Actors, Keygen(a)
  PROVE  \/ key # NoKey /\ Ending(a) /\ Same /\ UNCHANGED used
         \/ Fails(a) /\ UNCHANGED used
         \/ /\ key = NoKey /\ Same /\ used' \subseteq Keys
            /\ act' \in [Actors -> ActorRecord]
            /\ act'[a].pc = "keyfile" /\ act'[a].op = act[a].op /\ act'[a].pub \in Keys
            /\ \A b \in Actors \ {a} : act'[b] = act[b]
<1> DEFINE k == CHOOSE k \in Keys \ used : TRUE
<1>1. CASE /\ key = NoKey /\ used # Keys
           /\ used' = used \cup {k}
           /\ GoesWithKey(a, "keyfile", k)
           /\ Same
  <2>1. used \subseteq Keys /\ act \in [Actors -> ActorRecord]
    BY DEF TypeOK, ActorRecord
  <2>2. k \in Keys
    BY <1>1, <2>1
  <2> HIDE DEF k
  <2>3. "keyfile" \in Pcs
    BY DEF Pcs
  <2> QED BY <1>1, <2>1, <2>2, <2>3, GoingWithKey
<1> QED BY <1>1 DEF Keygen, GoesWithKey

\* Encrypting gives the actor the key .sops.yaml names.
LEMMA EncryptDoes ==
  ASSUME TypeOK, NEW a \in Actors, Encrypt(a)
  PROVE  \/ Ending(a) /\ Same
         \/ Fails(a)
         \/ /\ rules \in Keys /\ Same
            /\ act' \in [Actors -> ActorRecord]
            /\ act'[a].pc = "replace" /\ act'[a].pub = rules
            /\ act'[a].op = act[a].op /\ act'[a].name = act[a].name
            /\ act'[a].seen = act[a].seen
            /\ \A b \in Actors \ {a} : act'[b] = act[b]
<1>1. "replace" \in Pcs
  BY DEF Pcs
<1>2. CASE /\ rules \in Keys
           /\ GoesWithKey(a, "replace", rules)
           /\ Same
  BY <1>1, <1>2, GoingWithKey
<1> QED BY <1>2 DEF Encrypt, GoesWithKey

\* Who finds no secrets makes the file, and the history says whether another does.
LEMMA FindSecretsDoes ==
  ASSUME TypeOK, NEW a \in Actors, FindSecrets(a)
  PROVE  /\ \/ secrets.form = "missing" /\ Going(a, "bootFile")
            \/ secrets.form # "missing" /\ Going(a, Bootstrapped(a))
         /\ hist' \in [crash : BOOLEAN, fail : BOOLEAN, race : BOOLEAN, twice : BOOLEAN,
                       ended : BOOLEAN, acked : SUBSET Names]
         /\ hist'.acked = hist.acked
         /\ Remembers
         /\ secrets.form = "missing" /\ ~hist'.twice
              => \A b \in Actors \ {a} : act[b].pc \notin BootPcs
<1> DEFINE other == \E b \in Actors \ {a} : act[b].pc \in BootPcs
<1>1. \/ /\ secrets.form = "missing" /\ Going(a, "bootFile")
         /\ hist' = [hist EXCEPT !.twice = hist.twice \/ other]
      \/ secrets.form # "missing" /\ Going(a, Bootstrapped(a)) /\ hist' = hist
  BY DEF FindSecrets
<1>2. other \in BOOLEAN
  OBVIOUS
<1>3. ~other => \A b \in Actors \ {a} : act[b].pc \notin BootPcs
  OBVIOUS
<1> HIDE DEF other
<1>4. CASE hist' = [hist EXCEPT !.twice = hist.twice \/ other]
  BY <1>1, <1>2, <1>3, <1>4 DEF TypeOK, Remembers
<1>5. CASE secrets.form # "missing" /\ hist' = hist
  BY <1>1, <1>5 DEF TypeOK, Remembers
<1> QED BY <1>1, <1>4, <1>5

\* Encrypting the placeholder in place gives the actor the key .sops.yaml names.
LEMMA WrapDoes ==
  ASSUME TypeOK, NEW a \in Actors, WrapPlaceholder(a)
  PROVE  \/ (secrets.form # "plain" \/ rules \notin Keys) /\ Ending(a) /\ Same
         \/ Fails(a)
         \/ /\ secrets.form = "plain" /\ rules \in Keys /\ Same
            /\ act' \in [Actors -> ActorRecord]
            /\ act'[a].pc = "wrapped" /\ act'[a].pub = rules /\ act'[a].op = act[a].op
            /\ \A b \in Actors \ {a} : act'[b] = act[b]
<1>1. "wrapped" \in Pcs
  BY DEF Pcs
<1>2. CASE /\ secrets.form = "plain" /\ rules \in Keys
           /\ GoesWithKey(a, "wrapped", rules)
           /\ Same
  BY <1>1, <1>2, GoingWithKey
<1> QED BY <1>2 DEF WrapPlaceholder, GoesWithKey

\* Reading gives a writer the secrets as it wants them.
LEMMA ReadDoes ==
  ASSUME TypeOK, NEW a \in Actors, ReadSecrets(a),
         act[a].op \in Writers \cup {"list"},
         act[a].op # "list" => act[a].name \in Names
  PROVE  \/ Ending(a) /\ Same
         \/ Fails(a)
         \/ /\ Opens /\ Same
            /\ act' \in [Actors -> ActorRecord]
            /\ act'[a].op = act[a].op /\ act'[a].name = act[a].name
            /\ act'[a].seen = Wanted(secrets.names, act[a])
            /\ \/ act'[a].pc = "plain" /\ act[a].op \in {"set", "remove"}
               \/ act'[a].pc = "editor" /\ act[a].op = "edit" /\ act'[a].pub = secrets.to
            /\ \A b \in Actors \ {a} : act'[b] = act[b]
<1>1. act \in [Actors -> ActorRecord] /\ secrets.names \subseteq Names
      /\ secrets.to \in Keys \cup {NoKey} /\ {"plain", "editor"} \subseteq Pcs
  BY DEF TypeOK, ActorRecord, Pcs
<1>2. CASE Opens /\ Same /\ act[a].op = "list"
  BY <1>2 DEF ReadSecrets, Ending
<1>3. CASE Opens /\ Same /\ act[a].op = "set" /\ ~Ending(a) /\ ~Fails(a)
  <2>1. act' = [act EXCEPT ![a] = [act[a] EXCEPT !.pc = "plain",
                                     !.seen = secrets.names \cup {act[a].name}]]
    BY <1>3 DEF ReadSecrets
  <2>2. secrets.names \cup {act[a].name} \subseteq Names
    BY <1>1, <1>3
  <2> QED BY <1>1, <1>3, <2>1, <2>2 DEF ActorRecord, Wanted
<1>4. CASE Opens /\ Same /\ act[a].op = "remove" /\ ~Ending(a) /\ ~Fails(a)
  <2>1. act' = [act EXCEPT ![a] = [act[a] EXCEPT !.pc = "plain",
                                     !.seen = secrets.names \ {act[a].name}]]
    BY <1>4 DEF ReadSecrets
  <2> QED BY <1>1, <1>4, <2>1 DEF ActorRecord, Wanted
<1>5. CASE Opens /\ Same /\ act[a].op = "edit" /\ ~Ending(a) /\ ~Fails(a)
  <2>1. act' = [act EXCEPT ![a] = [act[a] EXCEPT !.pc = "editor", !.pub = secrets.to,
                                     !.seen = secrets.names \cup {act[a].name}]]
    BY <1>5 DEF ReadSecrets
  <2>2. secrets.names \cup {act[a].name} \subseteq Names
    BY <1>1, <1>5
  <2> QED BY <1>1, <1>5, <2>1, <2>2 DEF ActorRecord, Wanted
<1> QED BY <1>2, <1>3, <1>4, <1>5 DEF ReadSecrets, Writers

\* init and up keep the types.
LEMMA InitStepsType ==
  ASSUME TypeOK, NEW a \in Actors, InitSteps(a) PROVE FilesType' /\ RestType'
<1> FilesType /\ RestType
  BY TypeParts
<1> USE DEF FilesType, fileVars, Ops, Pcs
<1>1. CASE BeginInit(a)
  BY <1>1, ActorType DEF BeginInit
<1>2. CASE BeginUp(a)
  BY <1>2, ActorType DEF BeginUp
<1>3. CASE FindKey(a)
  <2>1. FilesType' /\ hist' = hist /\ left' = left
    BY <1>3 DEF FindKey, Same
  <2>2. act' \in [Actors -> ActorRecord]
    BY <1>3, FindKeyDoes
  <2> QED BY <2>1, <2>2 DEF RestType
<1>4. CASE Keygen(a)
  <2>1. UNCHANGED fileVars
    BY <1>4 DEF Keygen
  <2>2. CASE Ending(a) /\ Same /\ UNCHANGED used
    BY <2>1, <2>2, ActorType
  <2>3. CASE Fails(a) /\ UNCHANGED used
    BY <2>1, <2>3, ActorType
  <2>4. CASE Same /\ used' \subseteq Keys /\ act' \in [Actors -> ActorRecord]
    BY <2>1, <2>4 DEF Same, RestType
  <2> QED BY <1>4, <2>2, <2>3, <2>4, KeygenDoes
<1>5. CASE WriteKey(a)
  BY <1>5, ActorType DEF WriteKey, RestType, ActorRecord
<1>6. CASE FindRules(a) \/ WriteRules(a)
  BY <1>6, ActorType DEF FindRules, WriteRules, RestType, ActorRecord
<1>7. CASE FindSecrets(a)
  <2>1. FilesType' /\ left' = left
    BY <1>7 DEF FindSecrets
  <2>2. act' \in [Actors -> ActorRecord]
    BY <1>7, FindSecretsDoes, GoingOn DEF Bootstrapped
  <2> QED BY <1>7, <2>1, <2>2, FindSecretsDoes DEF RestType
<1>8. CASE WritePlaceholder(a)
  BY <1>8, ActorType DEF WritePlaceholder, NoFile
<1>9. CASE WrapPlaceholder(a)
  <2>1. FilesType'
    BY <1>9 DEF WrapPlaceholder
  <2>2. CASE (Ending(a) /\ Same) \/ Fails(a)
    BY <2>1, <2>2, ActorType
  <2>3. CASE Same /\ act' \in [Actors -> ActorRecord]
    BY <2>1, <2>3 DEF Same, RestType
  <2> QED BY <1>9, <2>1, <2>2, <2>3, WrapDoes
<1>10. CASE WriteWrapped(a)
  <2>1. act[a].pub \in Keys \cup {NoKey}
    BY DEF RestType, ActorRecord
  <2> QED BY <1>10, <2>1, ActorType DEF WriteWrapped, Bootstrapped
<1>11. CASE WriteToml(a)
  BY <1>11, ActorType DEF WriteToml
<1>12. CASE Record(a)
  BY <1>12, EndingIdles DEF Record, RestType
<1> QED
  BY <1>1, <1>2, <1>3, <1>4, <1>5, <1>6, <1>7, <1>8, <1>9, <1>10, <1>11, <1>12 DEF InitSteps

\* So do the other operations, of an actor that has what it needs.
LEMMA OtherStepsType ==
  ASSUME TypeOK, PlaceInv, NEW a \in Actors,
         SecretSteps(a) \/ KeySteps(a) \/ DestroySteps(a) \/ BeginPut(a) \/ FillToml(a)
  PROVE  FilesType' /\ RestType'
<1> FilesType /\ RestType
  BY TypeParts
<1> USE DEF FilesType, fileVars, Ops, Pcs
<1>1. ASSUME NEW op \in Writers \cup {"list"}, NEW n \in Names \cup {NoName},
             BeginSecret(a, op, n)
      PROVE  FilesType' /\ RestType'
  BY <1>1, ActorType DEF BeginSecret, Writers
<1>2. CASE ReadSecrets(a)
  <2>1. FilesType'
    BY <1>2 DEF ReadSecrets
  <2>2. /\ act[a].op \in Writers \cup {"list"}
        /\ act[a].op # "list" => act[a].name \in Names
    BY <1>2 DEF ReadSecrets, At, PlaceInv, Placed
  <2>3. CASE (Ending(a) /\ Same) \/ Fails(a)
    BY <2>1, <2>3, ActorType
  <2>4. CASE Same /\ act' \in [Actors -> ActorRecord]
    BY <2>1, <2>4 DEF Same, RestType
  <2> QED BY <1>2, <2>1, <2>2, <2>3, <2>4, ReadDoes
<1>3. CASE WritePlain(a)
  BY <1>3, ActorType DEF WritePlain
<1>4. CASE Encrypt(a)
  <2>1. FilesType'
    BY <1>4 DEF Encrypt
  <2>2. CASE (Ending(a) /\ Same) \/ Fails(a)
    BY <2>1, <2>2, ActorType
  <2>3. CASE Same /\ act' \in [Actors -> ActorRecord]
    BY <2>1, <2>3 DEF Same, RestType
  <2> QED BY <1>4, <2>1, <2>2, <2>3, EncryptDoes
<1>5. CASE Replace(a)
  BY <1>5, GoingOn DEF Replace, RestType, ActorRecord
<1>6. CASE CleanUp(a)
  <2>1. act[a].op = "set" => act[a].name \in Names
    BY <1>6 DEF CleanUp, At, PlaceInv, Placed, WritingPcs
  <2>2. hist' \in [crash : BOOLEAN, fail : BOOLEAN, race : BOOLEAN, twice : BOOLEAN,
                   ended : BOOLEAN, acked : SUBSET Names]
    BY <1>6, <2>1 DEF CleanUp, RestType
  <2> QED BY <1>6, <2>2, EndingIdles DEF CleanUp, RestType
<1>7. CASE SaveEdited(a)
  BY <1>7, ActorType DEF SaveEdited, RestType, ActorRecord
<1>8. CASE ExportKey(a)
  BY <1>8, ActorType DEF ExportKey
<1>9. CASE BeginImport(a)
  BY <1>9, ActorType DEF BeginImport
<1>10. CASE CopyKey(a)
  BY <1>10, ActorType DEF CopyKey
<1>11. CASE BeginDestroy(a)
  BY <1>11, ActorType DEF BeginDestroy
<1>12. CASE UnlinkKey(a)
  BY <1>12, ActorType DEF UnlinkKey
<1>13. CASE UnlinkRules(a)
  BY <1>13, ActorType DEF UnlinkRules
<1>14. CASE UnlinkSecrets(a)
  <2>1. CASE Passed /\ UNCHANGED secrets
    BY <1>14, <2>1, ActorType DEF UnlinkSecrets
  <2>2. CASE secrets' = NoFile /\ hist' = [hist EXCEPT !.acked = {}] /\ UNCHANGED left
    BY <1>14, <2>2, GoingOn DEF UnlinkSecrets, NoFile, RestType
  <2> QED BY <1>14, <2>1, <2>2 DEF UnlinkSecrets
<1>15. CASE Forget(a)
  BY <1>15, EndingIdles DEF Forget, RestType
<1>16. CASE BeginPut(a)
  BY <1>16, ActorType DEF BeginPut
<1>17. CASE FillToml(a)
  BY <1>17, ActorType DEF FillToml
<1> QED
  BY <1>1, <1>2, <1>3, <1>4, <1>5, <1>6, <1>7, <1>8, <1>9, <1>10, <1>11, <1>12,
     <1>13, <1>14, <1>15, <1>16, <1>17 DEF SecretSteps, KeySteps, DestroySteps

\* And crashes.
LEMMA CrashType == ASSUME TypeOK, Crash PROVE FilesType' /\ RestType'
<1>1. FilesType /\ RestType
  BY TypeParts
<1>2. Idle \in ActorRecord
  BY DEF Idle, ActorRecord, Ops, Pcs
<1>3. act' \in [Actors -> ActorRecord]
  BY <1>1, <1>2 DEF Crash, RestType
<1>4. left' \in [ops : 0..MaxOps, mishaps : 0..MaxMishaps]
  BY <1>1, FilesAssumption DEF Crash, RestType
<1>5. hist' \in [crash : BOOLEAN, fail : BOOLEAN, race : BOOLEAN, twice : BOOLEAN,
                 ended : BOOLEAN, acked : SUBSET Names]
  BY <1>1 DEF Crash, RestType
<1>6. FilesType'
  BY <1>1 DEF Crash, FilesType
<1> QED BY <1>3, <1>4, <1>5, <1>6 DEF RestType

-----------------------------------------------------------------------------
(* Where the actors stand *)

\* A step of one actor is judged by that actor alone.
LEMMA OthersPlaced ==
  ASSUME PlaceInv, scene' = scene, NEW a \in Actors,
         \A b \in Actors \ {a} : act'[b] = act[b],
         act'[a].pc = "idle" \/ Placed(act'[a], Wants(a)),
         act'[a].op = "edit" => a \in Cli
  PROVE  PlaceInv'
<1>1. ASSUME NEW b \in Actors \ {a}
      PROVE  Placed(act'[b], Wants(b)') /\ (act'[b].op = "edit" => b \in Cli)
  BY <1>1 DEF PlaceInv, Wants
<1>2. Placed(act'[a], Wants(a)')
  <2>1. CASE act'[a].pc = "idle"
    BY <2>1 DEF Placed, MakingPcs, WritingPcs, UnlinkingPcs
  <2>2. CASE Placed(act'[a], Wants(a))
    BY <2>2 DEF Wants
  <2> QED BY <2>1, <2>2
<1> QED BY <1>1, <1>2 DEF PlaceInv

\* Whoever ends, or fails, is nowhere.
LEMMA EndingPlaced ==
  ASSUME TypeOK, PlaceInv, scene' = scene, NEW a \in Actors, Ending(a)
  PROVE  PlaceInv'
<1>1. act'[a] = Idle /\ \A b \in Actors \ {a} : act'[b] = act[b]
  BY EndingIdles
<1> QED BY <1>1, OthersPlaced DEF Idle

\* Whoever begins stands where its operation begins.
LEMMA BeginPlaced ==
  ASSUME TypeOK, PlaceInv, scene' = scene, NEW a \in Actors,
         NEW op \in Ops, NEW pc \in Pcs, NEW name \in Names \cup {NoName},
         Begin(a, op, pc, name),
         \/ pc = "key" /\ op \in {"init", "up"}
         \/ pc = "unlinkKey" /\ op = "destroy"
         \/ pc = "copy" /\ op = "import"
         \/ pc = "read" /\ op \in Writers /\ name \in Names /\ (op = "edit" => a \in Cli)
         \/ pc = "read" /\ op = "list"
         \/ pc = "idle" /\ op = "export"
         \/ pc = "fill" /\ op = "putToml"
  PROVE  PlaceInv'
<1>1. /\ act'[a].op = op /\ act'[a].pc = pc /\ act'[a].name = name
      /\ \A b \in Actors \ {a} : act'[b] = act[b]
  BY Beginning
<1>2. op \in Wants(a)
  BY DEF Begin, Wants
<1>3. Placed(act'[a], Wants(a))
  BY <1>1, <1>2 DEF Placed, MakingPcs, WritingPcs, UnlinkingPcs
<1> QED BY <1>1, <1>3, OthersPlaced DEF Writers

\* Whoever goes on with the same operation, key and name.
LEMMA GoingPlaced ==
  ASSUME TypeOK, PlaceInv, scene' = scene, NEW a \in Actors, NEW pc \in Pcs,
         act[a].pc # "idle", Going(a, pc),
         \/ act[a].pc \in MakingPcs /\ pc \in {"boot", "bootFile", "wrap", "toml", "record"}
         \/ act[a].pc \in {"keyfile", "rules"} /\ pc \in {"rules", "rulesFile"}
         \/ act[a].pc \in WritingPcs /\ pc \in {"encrypt", "clean"}
         \/ act[a].pc \in UnlinkingPcs /\ pc \in UnlinkingPcs
  PROVE  PlaceInv'
<1>1. /\ act'[a].pc = pc /\ act'[a].op = act[a].op /\ act'[a].pub = act[a].pub
      /\ act'[a].name = act[a].name
      /\ \A b \in Actors \ {a} : act'[b] = act[b]
  BY GoingOn
<1>2. Placed(act[a], Wants(a)) /\ (act[a].op = "edit" => a \in Cli)
  BY DEF PlaceInv
<1>3. Placed(act'[a], Wants(a))
  BY <1>1, <1>2 DEF Placed, MakingPcs, WritingPcs, UnlinkingPcs
<1> QED BY <1>1, <1>2, <1>3, OthersPlaced

\* init and up perform the operation they began.
LEMMA InitStepsPlaced ==
  ASSUME ShapeInv, scene' = scene, NEW a \in Actors, InitSteps(a) PROVE PlaceInv'
<1> TypeOK /\ PlaceInv
  BY DEF ShapeInv
<1> USE DEF At, Ops, Pcs, MakingPcs, WritingPcs, UnlinkingPcs
<1>1. CASE BeginInit(a)
  BY <1>1, BeginPlaced DEF BeginInit
<1>2. CASE BeginUp(a)
  BY <1>2, BeginPlaced DEF BeginUp
<1>3. CASE FindKey(a)
  <2>1. Placed(act[a], Wants(a)) /\ act[a].op \in {"init", "up"} /\ act[a].op \in Wants(a)
    BY <1>3 DEF FindKey, PlaceInv, Placed
  <2>2. /\ act'[a].pc = "idle" \/ Placed(act'[a], Wants(a))
        /\ act'[a].op # "edit"
    BY <2>1, <1>3, FindKeyDoes DEF Placed, Idle
  <2> QED BY <1>3, <2>2, FindKeyDoes, OthersPlaced
<1>4. CASE Keygen(a)
  <2>1. act[a].op \in {"init", "up"} /\ act[a].op \in Wants(a)
    BY <1>4 DEF Keygen, PlaceInv, Placed
  <2>2. CASE Ending(a) \/ Fails(a)
    BY <2>2, EndingPlaced DEF Fails
  <2>3. CASE /\ act'[a].pc = "keyfile" /\ act'[a].op = act[a].op /\ act'[a].pub \in Keys
             /\ \A b \in Actors \ {a} : act'[b] = act[b]
    <3>1. Placed(act'[a], Wants(a))
      BY <2>1, <2>3 DEF Placed
    <3> QED BY <2>1, <2>3, <3>1, OthersPlaced
  <2> QED BY <1>4, <2>2, <2>3, KeygenDoes
<1>5. CASE WriteKey(a)
  BY <1>5, GoingPlaced DEF WriteKey
<1>6. CASE FindRules(a) \/ WriteRules(a) \/ WritePlaceholder(a)
  BY <1>6, GoingPlaced DEF FindRules, WriteRules, WritePlaceholder
<1>7. CASE FindSecrets(a)
  BY <1>7, FindSecretsDoes, GoingPlaced DEF FindSecrets, Bootstrapped
<1>8. CASE WrapPlaceholder(a)
  <2>1. act[a].op \in {"init", "up"} /\ act[a].op \in Wants(a)
    BY <1>8 DEF WrapPlaceholder, PlaceInv, Placed
  <2>2. CASE Ending(a) \/ Fails(a)
    BY <2>2, EndingPlaced DEF Fails
  <2>3. CASE /\ act'[a].pc = "wrapped" /\ act'[a].op = act[a].op /\ act'[a].pub \in Keys
             /\ \A b \in Actors \ {a} : act'[b] = act[b]
    <3>1. Placed(act'[a], Wants(a))
      BY <2>1, <2>3 DEF Placed
    <3> QED BY <2>1, <2>3, <3>1, OthersPlaced
  <2> QED BY <1>8, <2>2, <2>3, WrapDoes
<1>9. CASE WriteWrapped(a)
  BY <1>9, GoingPlaced DEF WriteWrapped, Bootstrapped
<1>10. CASE WriteToml(a)
  BY <1>10, EndingPlaced DEF WriteToml
<1>11. CASE Record(a)
  BY <1>11, EndingPlaced DEF Record
<1> QED
  BY <1>1, <1>2, <1>3, <1>4, <1>5, <1>6, <1>7, <1>8, <1>9, <1>10, <1>11 DEF InitSteps

\* So do the others.
LEMMA OtherStepsPlaced ==
  ASSUME ShapeInv, scene' = scene, NEW a \in Actors,
         SecretSteps(a) \/ KeySteps(a) \/ DestroySteps(a) \/ BeginPut(a) \/ FillToml(a)
  PROVE  PlaceInv'
<1> TypeOK /\ PlaceInv
  BY DEF ShapeInv
<1> Placed(act[a], Wants(a)) /\ (act[a].op = "edit" => a \in Cli)
  BY DEF PlaceInv
<1> USE DEF At, Ops, Pcs, MakingPcs, WritingPcs, UnlinkingPcs
<1>1. ASSUME NEW op \in Writers, NEW n \in Names, BeginSecret(a, op, n)
      PROVE  PlaceInv'
  BY <1>1, BeginPlaced DEF BeginSecret, Writers
<1>2. CASE BeginSecret(a, "list", NoName)
  BY <1>2, BeginPlaced DEF BeginSecret
<1>3. CASE ReadSecrets(a)
  <2>1. /\ act[a].op \in Writers \cup {"list"}
        /\ act[a].op # "list" => act[a].name \in Names
        /\ act[a].op \in Wants(a)
    BY <1>3 DEF ReadSecrets, Placed
  <2>2. CASE Ending(a) \/ Fails(a)
    BY <2>2, EndingPlaced DEF Fails
  <2>3. CASE /\ Opens
             /\ act'[a].op = act[a].op /\ act'[a].name = act[a].name
             /\ \/ act'[a].pc = "plain" /\ act[a].op \in {"set", "remove"}
                \/ act'[a].pc = "editor" /\ act[a].op = "edit" /\ act'[a].pub = secrets.to
             /\ \A b \in Actors \ {a} : act'[b] = act[b]
    <3>1. secrets.to \in Keys
      BY <2>3 DEF Opens, ShapeInv, CipherInv
    <3>2. Placed(act'[a], Wants(a))
      BY <2>1, <2>3, <3>1 DEF Placed
    <3> QED BY <2>3, <3>2, OthersPlaced
  <2> QED BY <1>3, <2>1, <2>2, <2>3, ReadDoes
<1>4. CASE WritePlain(a)
  BY <1>4, GoingPlaced DEF WritePlain
<1>5. CASE Encrypt(a)
  <2>1. CASE Ending(a) \/ Fails(a)
    BY <2>1, EndingPlaced DEF Fails
  <2>2. CASE /\ rules \in Keys
             /\ act'[a].pc = "replace" /\ act'[a].pub = rules
             /\ act'[a].op = act[a].op /\ act'[a].name = act[a].name
             /\ \A b \in Actors \ {a} : act'[b] = act[b]
    <3>1. Placed(act'[a], Wants(a))
      BY <1>5, <2>2 DEF Placed, Encrypt
    <3> QED BY <2>2, <3>1, OthersPlaced
  <2> QED BY <1>5, <2>1, <2>2, EncryptDoes
<1>6. CASE Replace(a)
  BY <1>6, GoingPlaced DEF Replace
<1>7. CASE CleanUp(a) \/ SaveEdited(a) \/ CopyKey(a) \/ Forget(a) \/ FillToml(a)
  BY <1>7, EndingPlaced DEF CleanUp, SaveEdited, CopyKey, Forget, FillToml
<1>8. CASE ExportKey(a)
  BY <1>8, BeginPlaced DEF ExportKey
<1>9. CASE BeginImport(a)
  BY <1>9, BeginPlaced DEF BeginImport
<1>10. CASE BeginDestroy(a)
  BY <1>10, BeginPlaced DEF BeginDestroy
<1>11. CASE UnlinkKey(a) \/ UnlinkRules(a) \/ UnlinkSecrets(a)
  BY <1>11, GoingPlaced DEF UnlinkKey, UnlinkRules, UnlinkSecrets
<1>12. CASE BeginPut(a)
  BY <1>12, BeginPlaced DEF BeginPut
<1> QED
  BY <1>1, <1>2, <1>3, <1>4, <1>5, <1>6, <1>7, <1>8, <1>9, <1>10, <1>11, <1>12
     DEF SecretSteps, KeySteps, DestroySteps

\* Only five actions change the secrets.
WritesFile(a) ==
  WritePlaceholder(a) \/ WriteWrapped(a) \/ Replace(a) \/ SaveEdited(a) \/ UnlinkSecrets(a)

\* The others leave the secrets alone.
LEMMA SecretsChange ==
  ASSUME NEW a \in Actors,
         \/ InitSteps(a) \/ SecretSteps(a) \/ KeySteps(a) \/ DestroySteps(a)
         \/ BeginPut(a) \/ FillToml(a)
  PROVE  secrets' = secrets \/ WritesFile(a)
<1>1. InitSteps(a) => secrets' = secrets \/ WritesFile(a)
  BY DEF InitSteps, BeginInit, BeginUp, FindKey, Keygen, WriteKey, FindRules, WriteRules,
     FindSecrets, WrapPlaceholder, WriteToml, Record, WritesFile, fileVars
<1>2. SecretSteps(a) => secrets' = secrets \/ WritesFile(a)
  BY DEF SecretSteps, BeginSecret, ReadSecrets, WritePlain, Encrypt, CleanUp,
     WritesFile, fileVars
<1>3. KeySteps(a) \/ DestroySteps(a) \/ BeginPut(a) \/ FillToml(a)
        => secrets' = secrets \/ WritesFile(a)
  BY DEF KeySteps, ExportKey, BeginImport, CopyKey, DestroySteps, BeginDestroy,
     UnlinkKey, UnlinkRules, Forget, BeginPut, FillToml, WritesFile, fileVars
<1> QED BY <1>1, <1>2, <1>3

\* Those five encrypt for a key or leave no secrets.
LEMMA WritesCipher ==
  ASSUME ShapeInv, NEW a \in Actors, WritesFile(a) PROVE CipherInv'
<1> USE DEF ShapeInv, CipherInv
<1>1. CASE WritePlaceholder(a)
  BY <1>1 DEF WritePlaceholder, NoFile
<1>2. CASE WriteWrapped(a)
  BY <1>2 DEF WriteWrapped, PlaceInv, Placed, At
<1>3. CASE Replace(a) \/ SaveEdited(a)
  <2>1. act[a].pub \in Keys
    BY <1>3 DEF Replace, SaveEdited, PlaceInv, Placed, At
  <2>2. secrets' = [form |-> "cipher", to |-> act[a].pub, names |-> act[a].seen]
    BY <1>3 DEF Replace, SaveEdited
  <2> QED BY <2>1, <2>2
<1>4. CASE UnlinkSecrets(a)
  BY <1>4 DEF UnlinkSecrets, NoFile
<1> QED BY <1>1, <1>2, <1>3, <1>4 DEF WritesFile

\* Every step keeps the state well formed.
LEMMA NextShape == ShapeInv /\ [Next]_vars => ShapeInv'
<1> SUFFICES ASSUME ShapeInv, [Next]_vars PROVE ShapeInv'
  OBVIOUS
<1> TypeOK /\ PlaceInv /\ CipherInv
  BY DEF ShapeInv
<1>1. ASSUME NEW a \in Actors, scene' = scene,
             \/ InitSteps(a) \/ SecretSteps(a) \/ KeySteps(a) \/ DestroySteps(a)
             \/ BeginPut(a) \/ FillToml(a)
      PROVE  ShapeInv'
  <2>1. TypeOK'
    <3>1. FilesType' /\ RestType'
      BY <1>1, InitStepsType, OtherStepsType
    <3>2. scene' \in Scenes
      BY <1>1 DEF TypeOK
    <3>3. TypeOK' <=> FilesType' /\ RestType' /\ scene' \in Scenes
      BY DEF TypeOK, FilesType, RestType, ActorRecord
    <3> QED BY <3>1, <3>2, <3>3
  <2>2. PlaceInv'
    BY <1>1, InitStepsPlaced, OtherStepsPlaced
  <2>3. CipherInv'
    BY <1>1, SecretsChange, WritesCipher DEF CipherInv
  <2> QED BY <2>1, <2>2, <2>3 DEF ShapeInv
<1>2. ASSUME Crash, scene' = scene PROVE ShapeInv'
  <2>1. TypeOK'
    <3>1. scene' \in Scenes
      BY <1>2 DEF TypeOK
    <3>2. TypeOK' <=> FilesType' /\ RestType' /\ scene' \in Scenes
      BY DEF TypeOK, FilesType, RestType, ActorRecord
    <3> QED BY <1>2, <3>1, <3>2, CrashType
  <2>2. ASSUME NEW a \in Actors PROVE act'[a] = Idle \/ act'[a] = act[a]
    BY <1>2 DEF Crash
  <2>3. PlaceInv'
    BY <1>2, <2>2 DEF PlaceInv, Placed, Wants, Idle, MakingPcs, WritingPcs, UnlinkingPcs
  <2>4. CipherInv'
    BY <1>2 DEF Crash, CipherInv
  <2> QED BY <2>1, <2>3, <2>4 DEF ShapeInv
<1>3. CASE UNCHANGED vars
  BY <1>3 DEF vars, fileVars, ShapeInv, TypeOK, PlaceInv, CipherInv, Placed, Wants
<1> QED BY <1>1, <1>2, <1>3 DEF Next

\* So it always is.
LEMMA ShapeAlways == Spec => []ShapeInv
<1>1. Init => ShapeInv
  <2>1. Init => PlaceInv /\ CipherInv
    BY DEF Init, PlaceInv, Placed, CipherInv, NoFile, Idle, MakingPcs, WritingPcs,
       UnlinkingPcs
  <2> QED BY <2>1, InitType DEF ShapeInv
<1> QED BY <1>1, NextShape, PTL DEF Spec

\* The state is well typed, for any actors, keys and names.
THEOREM TypeCorrect == Spec => []TypeOK
  BY ShapeAlways, PTL DEF ShapeInv

-----------------------------------------------------------------------------
(* Who works at the same time *)

\* An operation that begins beside another is in the history, an actor goes on
\* with the operation it began, and the history forgets nothing.
LEMMA StepKeepsOps ==
  ASSUME ShapeInv, NEW a \in Actors,
         \/ InitSteps(a) \/ SecretSteps(a) \/ KeySteps(a) \/ DestroySteps(a)
         \/ BeginPut(a) \/ FillToml(a)
  PROVE  /\ \A b \in Actors \ {a} : act'[b] = act[b]
         /\ \/ act'[a].pc = "idle"
            \/ act[a].pc # "idle" /\ act'[a].op = act[a].op
            \/ \E op \in Ops : act'[a].op = op /\ (~hist'.race => ~Overlaps(op))
         /\ Remembers
<1> TypeOK /\ PlaceInv
  BY DEF ShapeInv
<1>1. ASSUME NEW op \in Ops, NEW pc \in Pcs, NEW name \in Names \cup {NoName},
             Begin(a, op, pc, name)
      PROVE  /\ \A b \in Actors \ {a} : act'[b] = act[b]
             /\ act'[a].op = op
             /\ ~hist'.race => ~Overlaps(op)
             /\ Remembers
  BY <1>1, Beginning
<1>2. ASSUME \/ Ending(a)
             \/ \E pc \in Pcs : Going(a, pc) /\ act[a].pc # "idle"
      PROVE  /\ \A b \in Actors \ {a} : act'[b] = act[b]
             /\ \/ act'[a].pc = "idle"
                \/ act[a].pc # "idle" /\ act'[a].op = act[a].op
  <2>1. CASE Ending(a)
    BY <2>1, EndingIdles DEF Idle
  <2>2. ASSUME NEW pc \in Pcs, Going(a, pc), act[a].pc # "idle"
        PROVE  /\ \A b \in Actors \ {a} : act'[b] = act[b]
               /\ act[a].pc # "idle" /\ act'[a].op = act[a].op
    BY <2>2, GoingOn
  <2> QED BY <1>2, <2>1, <2>2
<1> USE DEF At, Ops, Pcs
<1>3. CASE InitSteps(a)
  <2>1. CASE BeginInit(a) \/ BeginUp(a)
    BY <1>1, <2>1 DEF BeginInit, BeginUp
  <2>2. CASE FindKey(a)
    <3>1. act[a].pc = "key" /\ Remembers
      BY <2>2, Remembering DEF FindKey
    <3>2. act'[a].pc = "idle" \/ act'[a].op = act[a].op
      BY <2>2, FindKeyDoes DEF Idle
    <3> QED BY <2>2, <3>1, <3>2, FindKeyDoes
  <2>3. CASE Keygen(a)
    BY <1>2, <2>3, KeygenDoes, Remembering DEF Keygen, Fails
  <2>4. CASE WriteKey(a) \/ FindRules(a) \/ WriteRules(a) \/ WritePlaceholder(a)
    BY <1>2, <2>4, Remembering DEF WriteKey, FindRules, WriteRules, WritePlaceholder
  <2>5. CASE FindSecrets(a)
    BY <1>2, <2>5, FindSecretsDoes DEF FindSecrets, Bootstrapped
  <2>6. CASE WrapPlaceholder(a)
    BY <1>2, <2>6, WrapDoes, Remembering DEF WrapPlaceholder, Fails
  <2>7. CASE WriteWrapped(a) \/ WriteToml(a)
    BY <1>2, <2>7, Remembering DEF WriteWrapped, WriteToml, Bootstrapped
  <2>8. CASE Record(a)
    <3>1. Remembers
      BY <2>8 DEF Record, Remembers, TypeOK
    <3> QED BY <1>2, <2>8, <3>1 DEF Record
  <2> QED BY <1>3, <2>1, <2>2, <2>3, <2>4, <2>5, <2>6, <2>7, <2>8 DEF InitSteps
<1>4. CASE SecretSteps(a)
  <2>1. CASE \/ \E op \in Writers, n \in Names : BeginSecret(a, op, n)
             \/ BeginSecret(a, "list", NoName)
    BY <1>1, <2>1 DEF BeginSecret, Writers
  <2>2. CASE ReadSecrets(a)
    <3>1. /\ act[a].op \in Writers \cup {"list"}
          /\ act[a].op # "list" => act[a].name \in Names
      BY <2>2 DEF ReadSecrets, PlaceInv, Placed
    <3> QED BY <1>2, <2>2, <3>1, ReadDoes, Remembering DEF ReadSecrets, Fails
  <2>3. CASE Encrypt(a)
    BY <1>2, <2>3, EncryptDoes, Remembering DEF Encrypt, Fails
  <2>4. CASE WritePlain(a) \/ SaveEdited(a)
    BY <1>2, <2>4, Remembering DEF WritePlain, SaveEdited
  <2>5. CASE Replace(a) \/ CleanUp(a)
    <3>1. Remembers
      BY <2>5 DEF Replace, CleanUp, Remembers, TypeOK
    <3> QED BY <1>2, <2>5, <3>1 DEF Replace, CleanUp
  <2> QED BY <1>4, <2>1, <2>2, <2>3, <2>4, <2>5 DEF SecretSteps
<1>5. CASE KeySteps(a)
  BY <1>1, <1>2, <1>5, Remembering DEF KeySteps, ExportKey, BeginImport, CopyKey
<1>6. CASE DestroySteps(a)
  <2>1. CASE BeginDestroy(a)
    BY <1>1, <2>1 DEF BeginDestroy
  <2>2. CASE UnlinkKey(a) \/ UnlinkRules(a)
    BY <1>2, <2>2, Remembering DEF Passed, UnlinkKey, UnlinkRules
  <2>3. CASE UnlinkSecrets(a) \/ Forget(a)
    <3>1. Remembers
      BY <2>3, Remembering DEF UnlinkSecrets, Forget, Passed
    <3> QED BY <1>2, <2>3, <3>1 DEF UnlinkSecrets, Forget
  <2> QED BY <1>6, <2>1, <2>2, <2>3 DEF DestroySteps
<1>7. CASE BeginPut(a)
  BY <1>1, <1>7 DEF BeginPut
<1>8. CASE FillToml(a)
  BY <1>2, <1>8, Remembering DEF FillToml
<1> QED BY <1>3, <1>4, <1>5, <1>6, <1>7, <1>8

\* Every step keeps makers apart, or says that it does not.
LEMMA NextAlone == ShapeInv /\ AloneInv /\ [Next]_vars => AloneInv'
<1> SUFFICES ASSUME ShapeInv, AloneInv, [Next]_vars, ~hist'.race,
                    NEW b \in Actors, NEW c \in Actors, b # c
             PROVE  Alone(b, c)'
  BY DEF AloneInv
<1> USE DEF Alone, At
<1>1. ASSUME NEW a \in Actors,
             \/ InitSteps(a) \/ SecretSteps(a) \/ KeySteps(a) \/ DestroySteps(a)
             \/ BeginPut(a) \/ FillToml(a)
      PROVE  Alone(b, c)'
  <2>1. Alone(b, c) /\ ~hist.race
    BY <1>1, StepKeepsOps DEF AloneInv, Remembers
  <2>2. CASE act'[a].pc = "idle" \/ (act[a].pc # "idle" /\ act'[a].op = act[a].op)
    BY <1>1, <2>1, <2>2, StepKeepsOps
  <2>3. ASSUME NEW op \in Ops, act'[a].op = op, ~Overlaps(op) PROVE Alone(b, c)'
    BY <1>1, <2>1, <2>3, StepKeepsOps DEF Overlaps
  <2> QED BY <1>1, <2>2, <2>3, StepKeepsOps
<1>2. CASE Crash
  <2>1. Remembers
    BY <1>2, Remembering DEF Crash, ShapeInv
  <2> QED BY <1>2, <2>1 DEF Crash, AloneInv, Idle, Remembers
<1>3. CASE UNCHANGED vars
  BY <1>3 DEF vars, AloneInv
<1> QED BY <1>1, <1>2, <1>3 DEF Next

\* So they always are.
LEMMA AloneAlways == Spec => []AloneInv
<1>1. Init => AloneInv
  BY DEF Init, AloneInv, Alone, At, Idle
<1> QED BY <1>1, NextAlone, ShapeAlways, PTL DEF Spec

-----------------------------------------------------------------------------
(* What the dashboard has acknowledged *)

\* A step that leaves the secrets alone and brings its actor nowhere near a write.
LEMMA CalmKept ==
  ASSUME Kept, NEW a \in Actors,
         \A b \in Actors \ {a} : act'[b] = act[b],
         secrets' = secrets, hist'.acked = hist.acked,
         act'[a].pc \in WritingPcs => Fits(act'[a]),
         act'[a].pc \in BootPcs => act[a].pc \in BootPcs
  PROVE  Kept'
<1>1. Fits(act[a])'
  BY DEF Kept, Fits, Current, WritingPcs
<1>2. ASSUME NEW b \in Actors \ {a} PROVE Fits(act[b])'
  BY <1>2 DEF Kept, Fits
<1>3. ASSUME NEW b \in Actors, NEW c \in Actors, b # c
      PROVE  act'[b].pc \notin BootPcs \/ act'[c].pc \notin BootPcs
  BY <1>3 DEF Kept
<1> QED BY <1>1, <1>2, <1>3 DEF Kept

\* Operations begin far from a write.
LEMMA BeginsCalm ==
  ASSUME TypeOK, NEW a \in Actors,
         \/ BeginInit(a) \/ BeginUp(a)
         \/ \E op \in Writers, n \in Names : BeginSecret(a, op, n)
         \/ BeginSecret(a, "list", NoName)
         \/ ExportKey(a) \/ BeginImport(a) \/ BeginDestroy(a) \/ BeginPut(a)
  PROVE  /\ act'[a].pc \in {"key", "read", "idle", "copy", "unlinkKey", "fill"}
         /\ hist'.acked = hist.acked
<1>1. /\ {"init", "up", "list", "import", "export", "destroy", "putToml"} \subseteq Ops
      /\ Writers \subseteq Ops
      /\ {"key", "read", "idle", "copy", "unlinkKey", "fill"} \subseteq Pcs
  BY DEF Ops, Pcs, Writers
<1>2. CASE BeginInit(a) \/ BeginUp(a)
  BY <1>1, <1>2, Beginning DEF BeginInit, BeginUp
<1>3. ASSUME NEW op \in Writers, NEW n \in Names, BeginSecret(a, op, n)
      PROVE  act'[a].pc = "read" /\ hist'.acked = hist.acked
  BY <1>1, <1>3, Beginning DEF BeginSecret
<1>4. CASE BeginSecret(a, "list", NoName)
  BY <1>1, <1>4, Beginning DEF BeginSecret
<1>5. CASE ExportKey(a) \/ BeginImport(a)
  BY <1>1, <1>5, Beginning DEF ExportKey, BeginImport
<1>6. CASE BeginDestroy(a) \/ BeginPut(a)
  BY <1>1, <1>6, Beginning DEF BeginDestroy, BeginPut
<1> QED BY <1>2, <1>3, <1>4, <1>5, <1>6

\* Where only the server writes and one command makes the secrets' file, it makes
\* it where there are no secrets and nobody is about to write any.
LEMMA InitStepsKept ==
  ASSUME ShapeInv, Kept, ~hist'.twice, NEW a \in Actors, InitSteps(a) PROVE Kept'
<1> TypeOK /\ PlaceInv /\ CipherInv
  BY DEF ShapeInv
<1>1. \A b \in Actors \ {a} : act'[b] = act[b]
  BY StepKeepsOps
<1>2. act[a].pc \in BootPcs =>
        /\ secrets.names = {}
        /\ \A b \in Actors \ {a} : act[b].pc \notin WritingPcs \cup BootPcs
  BY DEF Kept, Fits, CipherInv
<1> USE DEF At
<1>3. CASE BeginInit(a) \/ BeginUp(a)
  <2>1. act'[a].pc \notin WritingPcs \cup BootPcs /\ hist'.acked = hist.acked
    BY <1>3, BeginsCalm DEF WritingPcs, BootPcs
  <2>2. secrets' = secrets
    BY <1>3 DEF BeginInit, BeginUp, fileVars
  <2> QED BY <1>1, <2>1, <2>2, CalmKept
<1>4. CASE FindKey(a) \/ Keygen(a)
  <2>1. act'[a].pc \notin WritingPcs \cup BootPcs
    <3> USE DEF WritingPcs, BootPcs
    <3>1. CASE FindKey(a)
      BY <3>1, FindKeyDoes DEF Idle
    <3>2. CASE Keygen(a)
      BY <3>2, KeygenDoes, EndingIdles DEF Idle, Fails
    <3> QED BY <1>4, <3>1, <3>2
  <2>2. secrets' = secrets /\ hist'.acked = hist.acked
    BY <1>4, Failing DEF FindKey, Keygen, Fails, Same, fileVars
  <2> QED BY <1>1, <2>1, <2>2, CalmKept
<1>5. CASE WriteKey(a) \/ FindRules(a) \/ WriteRules(a)
  <2>1. act'[a].pc \notin WritingPcs \cup BootPcs
    BY <1>5, GoingOn DEF WriteKey, FindRules, WriteRules, WritingPcs, BootPcs, Pcs
  <2>2. secrets' = secrets /\ hist'.acked = hist.acked
    BY <1>5 DEF WriteKey, FindRules, WriteRules, Same, fileVars
  <2> QED BY <1>1, <2>1, <2>2, CalmKept
<1>6. CASE FindSecrets(a)
  <2>1. secrets' = secrets /\ hist'.acked = hist.acked
    BY <1>6, FindSecretsDoes DEF FindSecrets, fileVars
  <2>2. CASE secrets.form # "missing"
    <3>1. act'[a].pc \in {"toml", "record"}
      BY <1>6, <2>2, FindSecretsDoes, GoingOn DEF Bootstrapped, Pcs
    <3> QED BY <1>1, <2>1, <3>1, CalmKept DEF WritingPcs, BootPcs
  <2>3. CASE secrets.form = "missing"
    <3>1. act'[a].pc = "bootFile"
      BY <1>6, <2>3, FindSecretsDoes, GoingOn DEF Pcs
    <3>2. \A b \in Actors \ {a} : act[b].pc \notin BootPcs
      BY <1>6, <2>3, FindSecretsDoes
    <3>3. Fits(act[a])'
      BY <2>1, <2>3, <3>1 DEF Fits, Current, WritingPcs
    <3>4. ASSUME NEW b \in Actors \ {a} PROVE Fits(act[b])'
      BY <1>1, <2>1, <3>4 DEF Kept, Fits
    <3> QED BY <1>1, <2>1, <3>2, <3>3, <3>4 DEF Kept
  <2> QED BY <2>2, <2>3
<1>7. CASE WritePlaceholder(a)
  <2>1. act[a].pc = "bootFile" /\ secrets' = [NoFile EXCEPT !.form = "plain"]
        /\ hist' = hist
    BY <1>7 DEF WritePlaceholder, Same
  <2>2. secrets'.names = {} /\ secrets'.form = "plain" /\ act'[a].pc = "wrap"
    BY <1>7, <2>1, GoingOn DEF WritePlaceholder, NoFile, Pcs
  <2>3. Fits(act[a])'
    BY <2>2 DEF Fits, Current, WritingPcs
  <2>4. ASSUME NEW b \in Actors \ {a} PROVE Fits(act[b])'
    BY <1>1, <1>2, <2>1, <2>4 DEF Fits, Current, WritingPcs, BootPcs
  <2> QED BY <1>1, <1>2, <2>1, <2>2, <2>3, <2>4 DEF Kept, BootPcs
<1>8. CASE WrapPlaceholder(a)
  <2>1. act'[a].pc \in {"idle", "wrapped"}
    BY <1>8, WrapDoes, EndingIdles DEF Idle, Fails
  <2>2. act[a].pc = "wrap" /\ secrets' = secrets /\ hist'.acked = hist.acked
    BY <1>8, Failing DEF WrapPlaceholder, Fails, Same, fileVars
  <2> QED BY <1>1, <2>1, <2>2, CalmKept DEF WritingPcs, BootPcs
<1>9. CASE WriteWrapped(a)
  <2>1. /\ act[a].pc = "wrapped" /\ hist' = hist
        /\ secrets'.names = {} /\ secrets'.form = "cipher"
    BY <1>9 DEF WriteWrapped, Same
  <2>2. act'[a].pc \in {"toml", "record"}
    BY <1>9, GoingOn DEF WriteWrapped, Bootstrapped, Pcs
  <2>3. Fits(act[a])'
    BY <2>2 DEF Fits, Current, WritingPcs, BootPcs
  <2>4. ASSUME NEW b \in Actors \ {a} PROVE Fits(act[b])'
    BY <1>1, <1>2, <2>1, <2>4 DEF Fits, Current, WritingPcs, BootPcs
  <2> QED BY <1>1, <1>2, <2>1, <2>2, <2>3, <2>4 DEF Kept, BootPcs
<1>10. CASE WriteToml(a) \/ Record(a)
  <2>1. act'[a].pc = "idle"
    BY <1>10, EndingIdles DEF WriteToml, Record, Idle
  <2>2. secrets' = secrets /\ hist'.acked = hist.acked
    BY <1>10 DEF WriteToml, Record, Same, TypeOK
  <2> QED BY <1>1, <2>1, <2>2, CalmKept DEF WritingPcs, BootPcs
<1> QED
  BY <1>3, <1>4, <1>5, <1>6, <1>7, <1>8, <1>9, <1>10 DEF InitSteps

\* Where only the server writes, its event loop lets nobody in between the read
\* of the secrets and the acknowledgement.
LEMMA OneWriter ==
  ASSUME ShapeInv, OnlyServerWrites, NEW a \in Actors, Runs(a),
         \/ act[a].pc \in WritingPcs
         \/ At(a, "unlinkSecrets"),
         NEW b \in Actors \ {a}
  PROVE  a \in Web /\ act[b].pc \notin WritingPcs
<1>1. ASSUME NEW c \in Actors, act[c].pc \in WritingPcs \cup {"unlinkSecrets"}
      PROVE  c \in Web
  <2>1. act[c].op \in Writers \cup {"destroy"} /\ act[c].op \in Wants(c)
    BY <1>1 DEF ShapeInv, PlaceInv, Placed, WritingPcs, UnlinkingPcs, Writers
  <2> QED BY <1>1, <2>1 DEF OnlyServerWrites, Wants, Actors
<1>2. a \in Web
  BY <1>1 DEF At
<1>3. b \in Web => Awaiting(b)
  BY <1>2 DEF Runs
<1>4. Awaiting(b) /\ act[b].pc \in WritingPcs => FALSE
  BY DEF Awaiting, WritingPcs
<1> QED BY <1>1, <1>2, <1>3, <1>4

\* A read that is written back has lost nothing: nobody wrote in between.
LEMMA SecretStepsKept ==
  ASSUME ShapeInv, Kept, OnlyServerWrites, NEW a \in Actors, SecretSteps(a) PROVE Kept'
<1> TypeOK /\ PlaceInv /\ CipherInv
  BY DEF ShapeInv
<1>1. \A b \in Actors \ {a} : act'[b] = act[b]
  BY StepKeepsOps
<1> USE DEF At, Ops, Pcs
<1>2. CASE \/ \E op \in Writers, n \in Names : BeginSecret(a, op, n)
           \/ BeginSecret(a, "list", NoName)
  <2>1. act'[a].pc \notin WritingPcs \cup BootPcs /\ hist'.acked = hist.acked
    BY <1>2, BeginsCalm DEF WritingPcs, BootPcs
  <2>2. secrets' = secrets
    BY <1>2 DEF BeginSecret, fileVars
  <2> QED BY <1>1, <2>1, <2>2, CalmKept
<1>3. CASE ReadSecrets(a)
  <2>1. /\ act[a].op \in Writers \cup {"list"}
        /\ act[a].op # "list" => act[a].name \in Names
    BY <1>3 DEF ReadSecrets, PlaceInv, Placed
  <2>2. secrets' = secrets /\ hist'.acked = hist.acked
    BY <1>3, <2>1, ReadDoes, Failing DEF ReadSecrets, fileVars, Same, Fails
  <2>3. CASE Ending(a) \/ Fails(a)
    <3>1. act'[a].pc = "idle"
      BY <2>3, EndingIdles DEF Fails, Idle
    <3> QED BY <1>1, <2>2, <3>1, CalmKept DEF WritingPcs, BootPcs
  <2>4. CASE /\ Opens
             /\ act'[a].op = act[a].op /\ act'[a].name = act[a].name
             /\ act'[a].seen = Wanted(secrets.names, act[a])
             /\ act'[a].pc \in {"plain", "editor"}
    <3>1. Fits(act'[a]) /\ act'[a].pc \notin BootPcs
      BY <2>4 DEF Fits, Current, Wanted, Opens, BootPcs
    <3> QED BY <1>1, <2>2, <3>1, CalmKept
  <2> QED BY <1>3, <2>1, <2>3, <2>4, ReadDoes
<1>4. CASE WritePlain(a) \/ Encrypt(a)
  <2>1. secrets' = secrets /\ hist'.acked = hist.acked
    BY <1>4, Failing DEF WritePlain, Encrypt, fileVars, Same, Fails
  <2>2. \/ act'[a].pc = "idle"
        \/ /\ act'[a].pc \in {"encrypt", "replace"} /\ act'[a].op = act[a].op
           /\ act'[a].name = act[a].name /\ act'[a].seen = act[a].seen
    <3>1. CASE WritePlain(a)
      BY <3>1, GoingOn DEF WritePlain
    <3>2. CASE Encrypt(a)
      BY <3>2, EncryptDoes, EndingIdles DEF Fails, Idle
    <3> QED BY <1>4, <3>1, <3>2
  <2>3. act[a].pc \in {"plain", "encrypt"}
    BY <1>4 DEF WritePlain, Encrypt
  <2>4. act'[a].pc \notin BootPcs /\ (act'[a].pc \in WritingPcs => Fits(act'[a]))
    BY <2>2, <2>3 DEF Kept, Fits, Current, WritingPcs, BootPcs, Wanted
  <2> QED BY <1>1, <2>1, <2>4, CalmKept
<1>5. CASE Replace(a)
  <2>1. \A b \in Actors \ {a} : act[b].pc \notin WritingPcs
    BY <1>5, OneWriter DEF Replace, WritingPcs
  <2>2. \A b \in Actors \ {a} : act[b].pc \notin BootPcs
    BY <1>5 DEF Replace, Kept, Fits, WritingPcs
  <2>3. /\ act'[a].pc = "clean" /\ act'[a].op = act[a].op /\ act'[a].name = act[a].name
        /\ secrets'.names = Wanted(secrets.names, act[a]) /\ secrets'.form = "cipher"
        /\ act[a].op \in {"set", "remove"}
        /\ hist.acked \subseteq secrets.names
    BY <1>5, GoingOn DEF Replace, Kept, Fits, Current, PlaceInv, Placed, WritingPcs
  <2>4. hist'.acked \subseteq secrets'.names
    BY <1>5, <2>3 DEF Replace, Wanted, TypeOK
  <2>5. Fits(act[a])'
    BY <2>3 DEF Fits, Current, Wanted, WritingPcs, BootPcs
  <2>6. ASSUME NEW b \in Actors \ {a} PROVE Fits(act[b])'
    BY <1>1, <2>1, <2>2, <2>6 DEF Fits, Current, WritingPcs
  <2> QED BY <1>1, <2>2, <2>3, <2>4, <2>5, <2>6 DEF Kept, BootPcs
<1>6. CASE CleanUp(a)
  <2>1. act'[a].pc = "idle" /\ secrets' = secrets
    BY <1>6, EndingIdles DEF CleanUp, Idle, fileVars
  <2>2. /\ act[a].op = "set" => act[a].name \in secrets.names
        /\ hist.acked \subseteq secrets.names
    BY <1>6 DEF CleanUp, Kept, Fits, Current
  <2>3. hist'.acked \subseteq secrets'.names
    BY <1>6, <2>1, <2>2 DEF CleanUp, TypeOK
  <2>4. Fits(act[a])'
    BY <2>1 DEF Fits, Current, WritingPcs, BootPcs
  <2>5. ASSUME NEW b \in Actors \ {a} PROVE Fits(act[b])'
    BY <1>1, <2>1, <2>5 DEF Kept, Fits
  <2> QED BY <1>1, <2>1, <2>3, <2>4, <2>5 DEF Kept, BootPcs
<1>7. CASE SaveEdited(a)
  <2>1. act[a].op = "edit" /\ a \in Cli /\ act[a].op \in Wants(a)
    BY <1>7 DEF SaveEdited, PlaceInv, Placed
  <2> QED BY <2>1 DEF OnlyServerWrites, Wants, Writers
<1> QED BY <1>2, <1>3, <1>4, <1>5, <1>6, <1>7 DEF SecretSteps

\* A destroy, of the dashboard, takes back what was acknowledged.
LEMMA OtherStepsKept ==
  ASSUME ShapeInv, Kept, OnlyServerWrites, NEW a \in Actors,
         KeySteps(a) \/ DestroySteps(a) \/ BeginPut(a) \/ FillToml(a)
  PROVE  Kept'
<1> TypeOK /\ PlaceInv /\ CipherInv
  BY DEF ShapeInv
<1>1. \A b \in Actors \ {a} : act'[b] = act[b]
  BY StepKeepsOps
<1> USE DEF At, Ops, Pcs
<1>2. CASE KeySteps(a) \/ BeginDestroy(a) \/ BeginPut(a) \/ FillToml(a)
  <2>1. secrets' = secrets
    BY <1>2 DEF KeySteps, ExportKey, BeginImport, CopyKey, BeginDestroy, BeginPut,
       FillToml, fileVars
  <2>2. act'[a].pc \notin WritingPcs \cup BootPcs /\ hist'.acked = hist.acked
    <3> USE DEF WritingPcs, BootPcs
    <3>1. CASE ExportKey(a) \/ BeginImport(a)
      BY <3>1, BeginsCalm
    <3>2. CASE BeginDestroy(a) \/ BeginPut(a)
      BY <3>2, BeginsCalm
    <3>3. CASE CopyKey(a) \/ FillToml(a)
      BY <3>3, EndingIdles DEF CopyKey, FillToml, Idle, Same
    <3> QED BY <1>2, <3>1, <3>2, <3>3 DEF KeySteps
  <2> QED BY <1>1, <2>1, <2>2, CalmKept
<1>3. CASE UnlinkKey(a) \/ UnlinkRules(a) \/ Forget(a)
  <2>1. secrets' = secrets
    BY <1>3 DEF UnlinkKey, UnlinkRules, Forget
  <2>2. act'[a].pc \notin WritingPcs \cup BootPcs
    <3> USE DEF WritingPcs, BootPcs
    <3>1. CASE UnlinkKey(a) \/ UnlinkRules(a)
      BY <3>1, GoingOn DEF UnlinkKey, UnlinkRules
    <3>2. CASE Forget(a)
      BY <3>2, EndingIdles DEF Forget, Idle
    <3> QED BY <1>3, <3>1, <3>2
  <2>3. hist'.acked = hist.acked
    BY <1>3, Failing DEF UnlinkKey, UnlinkRules, Forget, Passed, Same, TypeOK
  <2> QED BY <1>1, <2>1, <2>2, <2>3, CalmKept
<1>4. CASE UnlinkSecrets(a)
  <2>1. act'[a].pc = "forget"
    BY <1>4, GoingOn DEF UnlinkSecrets
  <2>2. CASE secrets' = secrets /\ Passed
    BY <1>1, <2>1, <2>2, CalmKept, Failing DEF Passed, WritingPcs, BootPcs
  <2>3. CASE secrets' = NoFile /\ hist' = [hist EXCEPT !.acked = {}]
    <3>1. hist'.acked = {} /\ secrets'.form = "missing"
      BY <2>3 DEF TypeOK, NoFile
    <3>2. \A b \in Actors \ {a} : act[b].pc \notin WritingPcs
      BY <1>4, OneWriter DEF UnlinkSecrets
    <3>3. Fits(act[a])'
      BY <2>1 DEF Fits, Current, WritingPcs, BootPcs
    <3>4. ASSUME NEW b \in Actors \ {a} PROVE Fits(act[b])'
      BY <1>1, <3>1, <3>2, <3>4 DEF Fits, Current, WritingPcs
    <3> QED BY <1>1, <2>1, <3>1, <3>3, <3>4 DEF Kept, BootPcs
  <2> QED BY <1>4, <2>2, <2>3 DEF UnlinkSecrets
<1> QED BY <1>2, <1>3, <1>4 DEF DestroySteps

\* What the dashboard has acknowledged is in the file until somebody removes it,
\* for any number of requests, across crashes of either side, while the CLI makes
\* keys, reads and imports: unless it writes secrets or destroys, or two commands
\* have found no file and both made it.
THEOREM AckedIsKept == Spec => []AckedSecretsKept
<1>1. Init => KeptInv
  BY DEF Init, KeptInv, Kept, Fits, Current, Idle, NoFile, WritingPcs, BootPcs
<1>2. ShapeInv /\ KeptInv /\ [Next]_vars => KeptInv'
  <2> SUFFICES ASSUME ShapeInv, KeptInv, [Next]_vars, OnlyServerWrites', ~hist'.twice
               PROVE  Kept'
    BY DEF KeptInv
  <2>1. ASSUME NEW a \in Actors, scene' = scene,
               \/ InitSteps(a) \/ SecretSteps(a) \/ KeySteps(a) \/ DestroySteps(a)
               \/ BeginPut(a) \/ FillToml(a)
        PROVE  Kept'
    <3>1. OnlyServerWrites /\ Remembers
      BY <2>1, StepKeepsOps DEF OnlyServerWrites
    <3>2. Kept
      BY <3>1 DEF KeptInv, Remembers
    <3> QED BY <2>1, <3>1, <3>2, InitStepsKept, SecretStepsKept, OtherStepsKept
  <2>2. CASE Crash /\ scene' = scene
    <3>1. \A a \in Actors : act'[a] = Idle \/ act'[a] = act[a]
      BY <2>2 DEF Crash
    <3>2. secrets' = secrets /\ hist'.acked = hist.acked /\ hist'.twice = hist.twice
      BY <2>2 DEF Crash, ShapeInv, TypeOK
    <3>3. Kept
      BY <2>2, <3>2 DEF KeptInv, OnlyServerWrites
    <3>4. ASSUME NEW a \in Actors PROVE Fits(act[a])'
      BY <3>1, <3>2, <3>3 DEF Kept, Fits, Current, Idle, WritingPcs, BootPcs
    <3>5. \A a \in Actors : act'[a].pc \in BootPcs => act[a].pc \in BootPcs
      BY <3>1 DEF Idle, BootPcs
    <3> QED BY <3>2, <3>3, <3>4, <3>5 DEF Kept
  <2>3. CASE UNCHANGED vars
    BY <2>3 DEF vars, fileVars, KeptInv, Kept, Fits, OnlyServerWrites, Current, Wanted
  <2> QED BY <2>1, <2>2, <2>3 DEF Next
<1>3. KeptInv => AckedSecretsKept
  BY DEF KeptInv, Kept, OnlyServerWrites, AckedSecretsKept
<1> QED BY <1>1, <1>2, <1>3, ShapeAlways, PTL DEF Spec

-----------------------------------------------------------------------------
(* One key at a time *)

MakerPcs == MakingPcs \cup UnlinkingPcs \cup {"copy"}
BusyPcs == MakerPcs \cup WritingPcs \cup {"editor"}

\* Whoever makes or removes keys is alone with them.
LEMMA MakerAlone ==
  ASSUME ShapeInv, AloneInv, ~hist.race, NEW a \in Actors, NEW b \in Actors \ {a}
  PROVE  /\ act[a].pc \in MakerPcs => act[b].pc \notin BusyPcs
         /\ act[a].pc \in BusyPcs => act[b].pc \notin MakerPcs
<1>1. \A c \in Actors : Placed(act[c], Wants(c))
  BY DEF ShapeInv, PlaceInv
<1>2. \A c \in Actors :
        /\ act[c].pc \in MakerPcs => ~At(c, "idle") /\ act[c].op \in Makers
        /\ act[c].pc \in BusyPcs => ~At(c, "idle") /\ act[c].op \in Makers \cup Writers
  BY <1>1 DEF Placed, At, MakerPcs, BusyPcs, MakingPcs, UnlinkingPcs, WritingPcs,
     Makers, Writers
<1>3. Alone(a, b) /\ Alone(b, a)
  BY DEF AloneInv
<1> QED BY <1>2, <1>3 DEF Alone

\* A step that leaves the files alone.
LEMMA CalmRecord ==
  ASSUME RecordInv, Remembers, NEW a \in Actors,
         \A b \in Actors \ {a} : act'[b] = act[b],
         UNCHANGED <<key, rules, secrets, recorded>>,
         ~hist'.fail /\ ~hist'.race => Ready(act'[a])
  PROVE  RecordInv'
<1> SUFFICES ASSUME ~hist'.fail, ~hist'.race
             PROVE  OnlyThisKey' /\ \A b \in Actors : Ready(act[b])'
  BY DEF RecordInv
<1>1. OnlyThisKey /\ \A b \in Actors : Ready(act[b])
  BY DEF Remembers, RecordInv
<1>2. OnlyThisKey'
  BY <1>1 DEF OnlyThisKey
<1>3. ASSUME NEW b \in Actors \ {a} PROVE Ready(act[b])'
  BY <1>1, <1>3 DEF Ready
<1>4. Ready(act[a])'
  BY DEF Ready
<1> QED BY <1>2, <1>3, <1>4

\* A step of the only one at work.
LEMMA AloneRecord ==
  ASSUME NEW a \in Actors,
         \A b \in Actors \ {a} : act'[b] = act[b] /\ act[b].pc \notin BusyPcs,
         OnlyThisKey', Ready(act[a])'
  PROVE  RecordInv'
<1>1. ASSUME NEW b \in Actors \ {a} PROVE Ready(act[b])'
  BY <1>1 DEF Ready, BusyPcs, MakerPcs, MakingPcs, UnlinkingPcs, WritingPcs
<1> QED BY <1>1 DEF RecordInv

\* Ready is said of where an actor stands.
LEMMA NowhereReady ==
  ASSUME NEW w,
         w.pc \notin {"keygen", "keyfile", "copy", "rules", "rulesFile", "wrapped", "replace",
                      "editor"} \cup UnlinkingPcs
  PROVE  Ready(w)
  BY DEF Ready, UnlinkingPcs

\* init and up write one key, where there was none, and name it in .sops.yaml.
LEMMA InitStepsRecord ==
  ASSUME ShapeInv, AloneInv, RecordInv, NEW a \in Actors, InitSteps(a) PROVE RecordInv'
<1> TypeOK /\ PlaceInv /\ CipherInv
  BY DEF ShapeInv
<1>0. Remembers /\ \A b \in Actors \ {a} : act'[b] = act[b]
  BY StepKeepsOps
<1> SUFFICES ASSUME ~hist'.fail, ~hist'.race PROVE RecordInv'
  BY DEF RecordInv
<1>a. /\ ~hist.fail /\ ~hist.race /\ OnlyThisKey
      /\ \A b \in Actors : Ready(act[b])
  BY <1>0 DEF Remembers, RecordInv
<1>b. act[a].pc \in MakingPcs => \A b \in Actors \ {a} : act[b].pc \notin BusyPcs
  BY <1>a, MakerAlone DEF MakerPcs
<1> USE DEF At, UnlinkingPcs
<1>1. CASE BeginInit(a) \/ BeginUp(a)
  <2>1. act'[a].pc = "key"
    <3>1. {"init", "up"} \subseteq Ops /\ "key" \in Pcs
      BY DEF Ops, Pcs
    <3> QED BY <1>1, <3>1, Beginning DEF BeginInit, BeginUp
  <2>2. UNCHANGED <<key, rules, secrets, recorded>>
    BY <1>1 DEF BeginInit, BeginUp, fileVars
  <2> QED BY <1>0, <2>1, <2>2, CalmRecord, NowhereReady
<1>2. CASE FindKey(a)
  <2>1. Ready(act'[a])
    BY <1>2, FindKeyDoes DEF Ready, Idle
  <2> QED BY <1>0, <1>2, <2>1, CalmRecord DEF FindKey, fileVars
<1>3. CASE Keygen(a)
  <2>1. Ready(act'[a])
    BY <1>3, KeygenDoes, EndingIdles DEF Ready, Idle, Fails
  <2> QED BY <1>0, <1>3, <2>1, CalmRecord DEF Keygen, fileVars
<1>4. CASE WriteKey(a)
  <2>1. key = NoKey /\ act[a].pub \in Keys /\ key' = act[a].pub
    BY <1>4, <1>a DEF WriteKey, Ready, PlaceInv, Placed
  <2>2. act'[a].pc = "rules" /\ act'[a].pub = act[a].pub
    BY <1>4, GoingOn DEF WriteKey, Pcs
  <2>3. Ready(act[a])'
    BY <2>1, <2>2 DEF Ready
  <2>4. OnlyThisKey'
    BY <1>4, <1>a, <2>1, FilesAssumption DEF WriteKey, OnlyThisKey, CipherInv
  <2> QED BY <1>0, <1>4, <1>b, <2>3, <2>4, AloneRecord DEF WriteKey, MakingPcs
<1>5. CASE FindRules(a)
  <2>1. act[a].pub = key
    BY <1>5, <1>a DEF FindRules, Ready
  <2>2. act'[a].pc \in {"rulesFile", "boot"} /\ act'[a].pub = act[a].pub
    BY <1>5, GoingOn DEF FindRules, Pcs
  <2>3. Ready(act'[a])
    BY <2>1, <2>2 DEF Ready
  <2> QED BY <1>0, <1>5, <2>3, CalmRecord DEF FindRules, fileVars
<1>6. CASE WriteRules(a)
  <2>1. act[a].pub = key
    BY <1>6, <1>a DEF WriteRules, Ready
  <2>2. act'[a].pc = "boot"
    BY <1>6, GoingOn DEF WriteRules, Pcs
  <2>3. OnlyThisKey'
    BY <1>6, <1>a, <2>1 DEF WriteRules, OnlyThisKey
  <2> QED BY <1>0, <1>6, <1>b, <2>2, <2>3, AloneRecord, NowhereReady DEF WriteRules, MakingPcs, Ready
<1>7. CASE FindSecrets(a)
  <2>1. act'[a].pc \in {"bootFile", "toml", "record"}
    BY <1>7, FindSecretsDoes, GoingOn DEF Bootstrapped, Pcs
  <2> QED BY <1>0, <1>7, <2>1, CalmRecord, NowhereReady DEF FindSecrets, fileVars
<1>8. CASE WrapPlaceholder(a)
  <2>1. CASE Ending(a) \/ Fails(a)
    <3>1. Ready(act'[a])
      BY <2>1, EndingIdles, NowhereReady DEF Fails, Idle
    <3> QED BY <1>0, <1>8, <3>1, CalmRecord DEF WrapPlaceholder, fileVars
  <2>2. CASE rules \in Keys /\ act'[a].pc = "wrapped" /\ act'[a].pub = rules
    <3>1. Ready(act'[a])
      BY <1>a, <2>2 DEF Ready, OnlyThisKey
    <3> QED BY <1>0, <1>8, <3>1, CalmRecord DEF WrapPlaceholder, fileVars
  <2> QED BY <1>8, <2>1, <2>2, WrapDoes
<1>9. CASE WritePlaceholder(a) \/ WriteWrapped(a)
  <2>1. act'[a].pc \in {"wrap", "toml", "record"}
    BY <1>9, GoingOn DEF WritePlaceholder, WriteWrapped, Bootstrapped, Pcs
  <2>2. OnlyThisKey'
    <3>1. CASE WritePlaceholder(a)
      BY <1>a, <3>1 DEF WritePlaceholder, OnlyThisKey, NoFile
    <3>2. CASE WriteWrapped(a)
      BY <1>a, <3>2 DEF WriteWrapped, OnlyThisKey, Ready
    <3> QED BY <1>9, <3>1, <3>2
  <2>3. act[a].pc \in MakingPcs
    BY <1>9 DEF WritePlaceholder, WriteWrapped, MakingPcs
  <2> QED BY <1>0, <1>b, <2>1, <2>2, <2>3, AloneRecord DEF Ready
<1>10. CASE WriteToml(a) \/ Record(a)
  <2>1. act'[a].pc = "idle"
    BY <1>10, EndingIdles DEF WriteToml, Record, Idle
  <2>2. OnlyThisKey'
    BY <1>10, <1>a DEF WriteToml, Record, OnlyThisKey
  <2>3. act[a].pc \in MakingPcs
    BY <1>10 DEF WriteToml, Record, MakingPcs
  <2> QED BY <1>0, <1>b, <2>1, <2>2, <2>3, AloneRecord DEF Ready
<1> QED
  BY <1>1, <1>2, <1>3, <1>4, <1>5, <1>6, <1>7, <1>8, <1>9, <1>10 DEF InitSteps

\* Writers encrypt for the key .sops.yaml names, or for the file's own.
LEMMA SecretStepsRecord ==
  ASSUME ShapeInv, AloneInv, RecordInv, NEW a \in Actors, SecretSteps(a) PROVE RecordInv'
<1> TypeOK /\ PlaceInv /\ CipherInv
  BY DEF ShapeInv
<1>0. Remembers /\ \A b \in Actors \ {a} : act'[b] = act[b]
  BY StepKeepsOps
<1> SUFFICES ASSUME ~hist'.fail, ~hist'.race PROVE RecordInv'
  BY DEF RecordInv
<1>a. /\ ~hist.fail /\ ~hist.race /\ OnlyThisKey
      /\ \A b \in Actors : Ready(act[b])
  BY <1>0 DEF Remembers, RecordInv
<1> USE DEF At, UnlinkingPcs
<1>1. CASE \/ \E op \in Writers, n \in Names : BeginSecret(a, op, n)
           \/ BeginSecret(a, "list", NoName)
  <2>1. Ready(act'[a])
    <3>1. Writers \cup {"list"} \subseteq Ops /\ "read" \in Pcs
      BY DEF Ops, Pcs, Writers
    <3>2. act'[a].pc = "read"
      BY <1>1, <3>1, Beginning DEF BeginSecret
    <3> QED BY <3>2, NowhereReady
  <2>2. UNCHANGED <<key, rules, secrets, recorded>>
    BY <1>1 DEF BeginSecret, fileVars
  <2> QED BY <1>0, <2>1, <2>2, CalmRecord
<1>2. CASE ReadSecrets(a)
  <2>1. /\ act[a].op \in Writers \cup {"list"}
        /\ act[a].op # "list" => act[a].name \in Names
    BY <1>2 DEF ReadSecrets, PlaceInv, Placed
  <2>2. CASE Ending(a) \/ Fails(a)
    <3>1. Ready(act'[a])
      BY <2>2, EndingIdles, NowhereReady DEF Fails, Idle
    <3> QED BY <1>0, <1>2, <3>1, CalmRecord DEF ReadSecrets, fileVars
  <2>3. CASE /\ Opens
             /\ act'[a].pc = "plain" \/ (act'[a].pc = "editor" /\ act'[a].pub = secrets.to)
    <3>1. Ready(act'[a])
      BY <2>3 DEF Ready, Opens
    <3> QED BY <1>0, <1>2, <3>1, CalmRecord DEF ReadSecrets, fileVars
  <2> QED BY <1>2, <2>1, <2>2, <2>3, ReadDoes
<1>3. CASE WritePlain(a)
  <2>1. Ready(act'[a])
    BY <1>3, GoingOn, NowhereReady DEF WritePlain, Pcs
  <2> QED BY <1>0, <1>3, <2>1, CalmRecord DEF WritePlain, fileVars
<1>4. CASE Encrypt(a)
  <2>1. CASE Ending(a) \/ Fails(a)
    <3>1. Ready(act'[a])
      BY <2>1, EndingIdles, NowhereReady DEF Fails, Idle
    <3> QED BY <1>0, <1>4, <3>1, CalmRecord DEF Encrypt, fileVars
  <2>2. CASE rules \in Keys /\ act'[a].pc = "replace" /\ act'[a].pub = rules
    <3>1. Ready(act'[a])
      BY <1>a, <2>2 DEF Ready, OnlyThisKey
    <3> QED BY <1>0, <1>4, <3>1, CalmRecord DEF Encrypt, fileVars
  <2> QED BY <1>4, <2>1, <2>2, EncryptDoes
<1>5. CASE Replace(a) \/ SaveEdited(a)
  <2>1. act'[a].pc \in {"idle", "clean"}
    <3>1. CASE Replace(a)
      BY <3>1, GoingOn DEF Replace, Pcs
    <3>2. CASE SaveEdited(a)
      BY <3>2, EndingIdles DEF SaveEdited, Idle
    <3> QED BY <1>5, <3>1, <3>2
  <2>2. /\ secrets' = [form |-> "cipher", to |-> act[a].pub, names |-> act[a].seen]
        /\ UNCHANGED <<key, rules, recorded>>
        /\ act[a].pc \in {"replace", "editor"}
    BY <1>5 DEF Replace, SaveEdited
  <2>3. OnlyThisKey'
    BY <1>a, <2>2 DEF Ready, OnlyThisKey
  <2>4. Ready(act[a])'
    BY <2>1 DEF Ready
  <2>5. ASSUME NEW b \in Actors \ {a} PROVE Ready(act[b])'
    <3>1. act[b].pc # "forget"
      BY <1>a, <2>2, MakerAlone DEF MakerPcs, BusyPcs, WritingPcs
    <3> QED BY <1>0, <1>a, <2>2, <3>1 DEF Ready
  <2> QED BY <2>3, <2>4, <2>5 DEF RecordInv
<1>6. CASE CleanUp(a)
  <2>1. Ready(act'[a])
    BY <1>6, EndingIdles, NowhereReady DEF CleanUp, Idle
  <2> QED BY <1>0, <1>6, <2>1, CalmRecord DEF CleanUp, fileVars
<1> QED BY <1>1, <1>2, <1>3, <1>4, <1>5, <1>6 DEF SecretSteps

\* A destroy removes the files in order, and the record last.
LEMMA OtherStepsRecord ==
  ASSUME ShapeInv, AloneInv, RecordInv, NEW a \in Actors,
         KeySteps(a) \/ DestroySteps(a) \/ BeginPut(a) \/ FillToml(a)
  PROVE  RecordInv'
<1> TypeOK /\ PlaceInv /\ CipherInv
  BY DEF ShapeInv
<1>0. Remembers /\ \A b \in Actors \ {a} : act'[b] = act[b]
  BY StepKeepsOps
<1> SUFFICES ASSUME ~hist'.fail, ~hist'.race PROVE RecordInv'
  BY DEF RecordInv
<1>a. /\ ~hist.fail /\ ~hist.race /\ OnlyThisKey
      /\ \A b \in Actors : Ready(act[b])
  BY <1>0 DEF Remembers, RecordInv
<1>b. act[a].pc \in MakerPcs => \A b \in Actors \ {a} : act[b].pc \notin BusyPcs
  BY <1>a, MakerAlone
<1>c. /\ {"import", "export", "destroy", "putToml"} \subseteq Ops
      /\ {"idle", "copy", "unlinkKey", "unlinkRules", "unlinkSecrets", "forget", "fill"} \subseteq Pcs
  BY DEF Ops, Pcs
<1> USE DEF At, UnlinkingPcs
<1>1. CASE ExportKey(a) \/ BeginImport(a) \/ BeginPut(a)
  <2>1. \/ act'[a].pc \in {"idle", "fill"}
        \/ act'[a].pc = "copy" /\ key = NoKey
    BY <1>1, <1>c, Beginning DEF ExportKey, BeginImport, BeginPut
  <2>2. UNCHANGED <<key, rules, secrets, recorded>>
    BY <1>1 DEF ExportKey, BeginImport, BeginPut, fileVars
  <2> QED BY <1>0, <2>1, <2>2, CalmRecord DEF Ready
<1>2. CASE BeginDestroy(a)
  <2>1. act'[a].pc = "unlinkKey" /\ recorded
    BY <1>2, <1>c, Beginning DEF BeginDestroy
  <2> QED BY <1>0, <1>2, <2>1, CalmRecord DEF BeginDestroy, fileVars, Ready
<1>3. CASE FillToml(a)
  <2>1. act'[a].pc = "idle"
    BY <1>3, EndingIdles DEF FillToml, Idle
  <2> QED BY <1>0, <1>3, <2>1, CalmRecord, NowhereReady DEF FillToml
<1>4. CASE CopyKey(a)
  <2>1. act'[a].pc = "idle" /\ key = NoKey
    BY <1>4, <1>a, EndingIdles DEF CopyKey, Idle, Ready
  <2>2. OnlyThisKey'
    BY <1>4, <1>a, <2>1, FilesAssumption DEF CopyKey, OnlyThisKey, CipherInv
  <2>3. Ready(act[a])'
    BY <2>1 DEF Ready
  <2> QED BY <1>0, <1>4, <1>b, <2>2, <2>3, AloneRecord DEF CopyKey, MakerPcs
<1>5. CASE UnlinkKey(a) \/ UnlinkRules(a) \/ UnlinkSecrets(a)
  <2>1. recorded /\ recorded' = recorded /\ act[a].pc \in MakerPcs
    BY <1>5, <1>a DEF UnlinkKey, UnlinkRules, UnlinkSecrets, Ready, MakerPcs
  <2>2. OnlyThisKey'
    BY <2>1 DEF OnlyThisKey
  <2>3. ~Passed
    BY DEF Passed, TypeOK
  <2>4. Ready(act[a])'
    <3>1. CASE UnlinkKey(a)
      <4>1. act'[a].pc = "unlinkRules" /\ key' = NoKey
        BY <1>c, <2>3, <3>1, GoingOn DEF UnlinkKey
      <4> QED BY <2>1, <4>1 DEF Ready
    <3>2. CASE UnlinkRules(a)
      <4>1. act'[a].pc = "unlinkSecrets" /\ rules' = NoKey /\ key' = NoKey
        BY <1>a, <1>c, <2>3, <3>2, GoingOn DEF UnlinkRules, Ready
      <4> QED BY <2>1, <4>1 DEF Ready
    <3>3. CASE UnlinkSecrets(a)
      <4>0. act'[a].pc = "forget" /\ secrets'.form = "missing"
        <5>1. secrets' = NoFile
          BY <2>3, <3>3 DEF UnlinkSecrets
        <5>2. act'[a].pc = "forget"
          BY <1>c, <3>3, GoingOn DEF UnlinkSecrets
        <5> QED BY <5>1, <5>2 DEF NoFile
      <4>1. /\ act'[a].pc = "forget" /\ rules' = NoKey /\ key' = NoKey
            /\ secrets'.form = "missing"
        BY <1>a, <3>3, <4>0 DEF UnlinkSecrets, Ready
      <4> QED BY <2>1, <4>1 DEF Ready
    <3> QED BY <1>5, <3>1, <3>2, <3>3
  <2> QED BY <1>0, <1>b, <2>1, <2>2, <2>4, AloneRecord
<1>6. CASE Forget(a)
  <2>1. act'[a].pc = "idle" /\ act[a].pc \in MakerPcs
    BY <1>6, EndingIdles DEF Forget, Idle, MakerPcs
  <2>2. key = NoKey /\ rules = NoKey /\ secrets.form = "missing"
    BY <1>6, <1>a DEF Forget, Ready
  <2>3. OnlyThisKey'
    BY <1>6, <2>2 DEF Forget, OnlyThisKey
  <2>4. Ready(act[a])'
    BY <2>1 DEF Ready
  <2> QED BY <1>0, <1>b, <2>1, <2>3, <2>4, AloneRecord
<1> QED
  BY <1>1, <1>2, <1>3, <1>4, <1>5, <1>6 DEF KeySteps, DestroySteps

\* A process that dies leaves a torn key only where there was none.
LEMMA CrashRecord ==
  ASSUME ShapeInv, AloneInv, RecordInv, Crash PROVE RecordInv'
<1> TypeOK /\ PlaceInv /\ CipherInv
  BY DEF ShapeInv
<1>0. Remembers
  BY Remembering DEF Crash
<1> SUFFICES ASSUME ~hist'.fail, ~hist'.race
             PROVE  OnlyThisKey' /\ \A b \in Actors : Ready(act[b])'
  BY DEF RecordInv
<1>a. /\ ~hist.fail /\ ~hist.race /\ OnlyThisKey
      /\ \A b \in Actors : Ready(act[b])
  BY <1>0 DEF Remembers, RecordInv
<1>1. PICK dead \in SUBSET Actors :
        /\ act' = [a \in Actors |-> IF a \in dead THEN Idle ELSE act[a]]
        /\ \/ UNCHANGED key
           \/ (\E a \in dead : At(a, "keyfile") \/ At(a, "copy")) /\ key' = Torn
        /\ \/ UNCHANGED rules
           \/ (\E a \in dead : At(a, "rulesFile")) /\ rules' = Torn
  BY DEF Crash, Actors
<1>2. UNCHANGED <<secrets, recorded>>
  BY DEF Crash
<1>3. OnlyThisKey'
  <2>1. key' = key \/ key = NoKey
    BY <1>a, <1>1 DEF At, Ready
  <2>2. rules' = rules \/ rules' \notin Keys
    BY <1>1, FilesAssumption
  <2> QED BY <1>a, <1>2, <2>1, <2>2, FilesAssumption DEF OnlyThisKey, CipherInv
<1>4. ASSUME NEW b \in Actors PROVE Ready(act[b])'
  <2>1. CASE b \in dead
    BY <1>1, <2>1 DEF Ready, Idle, UnlinkingPcs
  <2>2. CASE b \notin dead
    <3>1. act'[b] = act[b]
      BY <1>1, <2>2
    <3>2. CASE UNCHANGED <<key, rules>>
      BY <1>2, <1>a, <3>1, <3>2 DEF Ready
    <3>3. ASSUME NEW a \in dead, At(a, "keyfile") \/ At(a, "copy") \/ At(a, "rulesFile")
          PROVE  Ready(act[b])'
      <4>1. act[b].pc \notin BusyPcs
        BY <1>a, <2>2, <3>3, MakerAlone DEF At, MakerPcs, MakingPcs
      <4> QED BY <3>1, <4>1 DEF Ready, BusyPcs, MakerPcs, MakingPcs, UnlinkingPcs, WritingPcs
    <3> QED BY <1>1, <3>2, <3>3
  <2> QED BY <2>1, <2>2
<1> QED BY <1>3, <1>4

\* So there is one key, or a record, in every state.
LEMMA RecordAlways == Spec => []RecordInv
<1>1. Init => RecordInv
  BY FilesAssumption DEF Init, RecordInv, OnlyThisKey, Ready, Idle, NoFile, UnlinkingPcs
<1>2. ShapeInv /\ AloneInv /\ RecordInv /\ [Next]_vars => RecordInv'
  <2> SUFFICES ASSUME ShapeInv, AloneInv, RecordInv, [Next]_vars PROVE RecordInv'
    OBVIOUS
  <2>1. CASE UNCHANGED vars
    BY <2>1 DEF vars, fileVars, RecordInv, OnlyThisKey, Ready
  <2> QED
    BY <2>1, CrashRecord, InitStepsRecord, SecretStepsRecord, OtherStepsRecord DEF Next
<1> QED BY <1>1, <1>2, ShapeAlways, AloneAlways, PTL DEF Spec

\* A crash at any point, in the middle of a destroy too, never leaves secrets
\* that no key opens without the record by which a second destroy removes them:
\* the key goes first and the record last, and without a record there is only
\* ever one key.
THEOREM StrandedHasRecord == Spec => []StrandedIsRecorded
<1>1. RecordInv => StrandedIsRecorded
  BY DEF RecordInv, OnlyThisKey, StrandedIsRecorded, Opens
<1> QED BY <1>1, RecordAlways, PTL

-----------------------------------------------------------------------------
(* The secrets open *)

\* A step that leaves the files alone, of an actor that is not in the middle of
\* making or removing them.
LEMMA CalmOpen ==
  ASSUME OpenInv, Remembers, NEW a \in Actors,
         \A b \in Actors \ {a} : act'[b] = act[b],
         UNCHANGED <<key, rules, secrets>>,
         act[a].pc \notin UnsettledPcs,
         ~hist'.crash /\ ~hist'.fail /\ ~hist'.race => Steady(act'[a])
  PROVE  OpenInv'
<1> SUFFICES ASSUME ~hist'.crash, ~hist'.fail, ~hist'.race
             PROVE  /\ Settled' \/ \E b \in Actors : act'[b].pc \in UnsettledPcs
                    /\ \A b \in Actors : Steady(act[b])'
  BY DEF OpenInv
<1>1. /\ Settled \/ \E b \in Actors \ {a} : act[b].pc \in UnsettledPcs
      /\ \A b \in Actors : Steady(act[b])
  BY DEF Remembers, OpenInv
<1>2. Settled => Settled'
  BY DEF Settled, Sealed
<1>3. ASSUME NEW b \in Actors \ {a} PROVE Steady(act[b])'
  BY <1>1, <1>3 DEF Steady, Sealed
<1>4. Steady(act[a])'
  BY DEF Steady, Sealed
<1> QED BY <1>1, <1>2, <1>3, <1>4

\* A step of the only one at work.
LEMMA AloneOpen ==
  ASSUME NEW a \in Actors,
         \A b \in Actors \ {a} : act'[b] = act[b] /\ act[b].pc \notin BusyPcs,
         Settled' \/ act'[a].pc \in UnsettledPcs, Steady(act[a])'
  PROVE  OpenInv'
<1>1. ASSUME NEW b \in Actors \ {a} PROVE Steady(act[b])'
  BY <1>1 DEF Steady, BusyPcs, MakerPcs, MakingPcs, WritingPcs
<1> QED BY <1>1 DEF OpenInv

\* Steady is said of where an actor stands.
LEMMA NowhereSteady ==
  ASSUME NEW w, w.pc \notin {"rulesFile", "boot", "bootFile", "wrap", "wrapped", "plain",
                            "encrypt", "replace", "editor"}
  PROVE  Steady(w)
  BY DEF Steady

\* Whoever makes keys, or writes, finds the files settled but in the middle of
\* its own work.
LEMMA BusySettled ==
  ASSUME ShapeInv, AloneInv, OpenInv, ~hist.crash, ~hist.fail, ~hist.race,
         NEW a \in Actors, act[a].pc \in BusyPcs \ UnsettledPcs
  PROVE  Settled
<1>1. UnsettledPcs \subseteq MakerPcs
  BY DEF UnsettledPcs, BootPcs, MakerPcs, MakingPcs, UnlinkingPcs
<1>2. \A b \in Actors \ {a} : act[b].pc \notin UnsettledPcs
  BY <1>1, MakerAlone
<1> QED BY <1>2 DEF OpenInv

\* init and up leave the secrets sealed for the key they made or found.
LEMMA InitStepsOpen ==
  ASSUME ShapeInv, AloneInv, RecordInv, OpenInv, NEW a \in Actors, InitSteps(a)
  PROVE  OpenInv'
<1> TypeOK /\ PlaceInv /\ CipherInv
  BY DEF ShapeInv
<1>0. Remembers /\ \A b \in Actors \ {a} : act'[b] = act[b]
  BY StepKeepsOps
<1> SUFFICES ASSUME ~hist'.crash, ~hist'.fail, ~hist'.race PROVE OpenInv'
  BY DEF OpenInv
<1>a. /\ ~hist.crash /\ ~hist.fail /\ ~hist.race
      /\ \A b \in Actors : Ready(act[b]) /\ Steady(act[b])
  BY <1>0 DEF Remembers, RecordInv, OpenInv
<1>b. act[a].pc \in MakingPcs => \A b \in Actors \ {a} : act[b].pc \notin BusyPcs
  BY <1>a, MakerAlone DEF MakerPcs
<1>c. act[a].pc \in MakingPcs \ ({"boot"} \cup BootPcs) => Settled
  BY <1>a, BusySettled DEF BusyPcs, MakerPcs, MakingPcs, UnsettledPcs, UnlinkingPcs
<1> USE DEF At, UnsettledPcs, UnlinkingPcs, BootPcs
<1>1. CASE BeginInit(a) \/ BeginUp(a)
  <2>1. act'[a].pc = "key" /\ act[a].pc = "idle"
    <3>1. {"init", "up"} \subseteq Ops /\ "key" \in Pcs
      BY DEF Ops, Pcs
    <3>2. act'[a].pc = "key"
      BY <1>1, <3>1, Beginning DEF BeginInit, BeginUp
    <3> QED BY <1>1, <3>2 DEF BeginInit, BeginUp, Begin
  <2>2. UNCHANGED <<key, rules, secrets>>
    BY <1>1 DEF BeginInit, BeginUp, fileVars
  <2> QED BY <1>0, <2>1, <2>2, CalmOpen, NowhereSteady
<1>2. CASE FindKey(a) \/ Keygen(a)
  <2>1. Steady(act'[a])
    <3>1. CASE FindKey(a)
      BY <3>1, FindKeyDoes, NowhereSteady DEF Idle
    <3>2. CASE Keygen(a)
      BY <3>2, KeygenDoes, EndingIdles, NowhereSteady DEF Idle, Fails
    <3> QED BY <1>2, <3>1, <3>2
  <2>2. UNCHANGED <<key, rules, secrets>> /\ act[a].pc \in {"key", "keygen"}
    BY <1>2 DEF FindKey, Keygen, fileVars
  <2> QED BY <1>0, <2>1, <2>2, CalmOpen
<1>3. CASE WriteKey(a)
  <2>1. act[a].pc = "keyfile" /\ key = NoKey /\ secrets.form = "missing" /\ rules = NoKey
    BY <1>3, <1>a, <1>c, FilesAssumption DEF WriteKey, Ready, Settled, Sealed, MakingPcs
  <2>2. Settled'
    BY <1>3, <2>1 DEF WriteKey, Settled
  <2>3. act'[a].pc = "rules"
    BY <1>3, GoingOn DEF WriteKey, Pcs
  <2>4. Steady(act[a])'
    BY <2>3 DEF Steady
  <2> QED BY <1>0, <1>b, <2>1, <2>2, <2>4, AloneOpen DEF MakingPcs
<1>4. CASE FindRules(a)
  <2>1. act[a].pub = key /\ key \in Keys /\ act[a].pc = "rules" /\ Settled
    BY <1>4, <1>a, <1>c DEF FindRules, Ready, MakingPcs, PlaceInv, Placed
  <2>2. UNCHANGED <<key, rules, secrets>>
    BY <1>4 DEF FindRules, fileVars
  <2>3. \/ rules = NoKey /\ act'[a].pc = "rulesFile"
        \/ rules # NoKey /\ act'[a].pc = "boot"
    BY <1>4, GoingOn DEF FindRules, Pcs
  <2>4. Steady(act'[a])
    BY <2>1, <2>3 DEF Steady, Settled
  <2> QED BY <1>0, <2>1, <2>2, <2>4, CalmOpen
<1>5. CASE WriteRules(a)
  <2>1. /\ act[a].pub = key /\ key \in Keys /\ act[a].pc = "rulesFile"
        /\ rules = NoKey /\ Settled
    BY <1>5, <1>a, <1>c DEF WriteRules, Ready, Steady, MakingPcs, PlaceInv, Placed
  <2>2. act'[a].pc = "boot"
    BY <1>5, GoingOn DEF WriteRules, Pcs
  <2>3. /\ rules' = key' /\ key' \in Keys
        /\ secrets'.form = "missing"
    BY <1>5, <2>1, FilesAssumption DEF WriteRules, Settled, Sealed
  <2>4. Steady(act[a])'
    BY <2>2, <2>3 DEF Steady
  <2> QED BY <1>0, <1>b, <2>1, <2>2, <2>4, AloneOpen DEF MakingPcs
<1>6. CASE FindSecrets(a)
  <2>1. /\ act[a].pc = "boot"
        /\ Sealed \/ (secrets.form = "missing" /\ rules = key /\ key \in Keys)
        /\ UNCHANGED <<key, rules, secrets>>
    BY <1>6, <1>a DEF FindSecrets, Steady, fileVars
  <2>2. CASE secrets.form = "missing"
    <3>1. act'[a].pc = "bootFile"
      BY <1>6, <2>2, FindSecretsDoes, GoingOn DEF Pcs
    <3>2. Steady(act[a])'
      BY <2>1, <2>2, <3>1 DEF Steady, Sealed
    <3> QED BY <1>0, <1>b, <2>1, <3>1, <3>2, AloneOpen DEF MakingPcs
  <2>3. CASE secrets.form # "missing"
    <3>1. act'[a].pc \in {"toml", "record"}
      BY <1>6, <2>3, FindSecretsDoes, GoingOn DEF Bootstrapped, Pcs
    <3>2. Settled'
      BY <2>1, <2>3 DEF Settled, Sealed
    <3>3. Steady(act[a])'
      BY <3>1 DEF Steady
    <3> QED BY <1>0, <1>b, <2>1, <3>2, <3>3, AloneOpen DEF MakingPcs
  <2> QED BY <2>2, <2>3
<1>7. CASE WritePlaceholder(a)
  <2>1. act[a].pc = "bootFile" /\ rules = key /\ key \in Keys
    BY <1>7, <1>a DEF WritePlaceholder, Steady
  <2>2. act'[a].pc = "wrap"
    BY <1>7, GoingOn DEF WritePlaceholder, Pcs
  <2>3. secrets'.form = "plain" /\ rules' = key' /\ key' \in Keys
    BY <1>7, <2>1 DEF WritePlaceholder, NoFile
  <2>4. Steady(act[a])'
    BY <2>2, <2>3 DEF Steady
  <2> QED BY <1>0, <1>b, <2>1, <2>2, <2>4, AloneOpen DEF MakingPcs
<1>8. CASE WrapPlaceholder(a)
  <2>1. act[a].pc = "wrap" /\ secrets.form = "plain" /\ rules = key /\ key \in Keys
    BY <1>8, <1>a DEF WrapPlaceholder, Steady
  <2>2. ~Fails(a)
    BY DEF Fails, TypeOK
  <2>3. act'[a].pc = "wrapped" /\ act'[a].pub = rules
    BY <1>8, <2>1, <2>2, WrapDoes
  <2>4. Steady(act[a])'
    BY <1>8, <2>1, <2>3 DEF WrapPlaceholder, fileVars, Steady
  <2> QED BY <1>0, <1>b, <2>1, <2>3, <2>4, AloneOpen DEF MakingPcs
<1>9. CASE WriteWrapped(a)
  <2>1. act[a].pc = "wrapped" /\ rules = key /\ key \in Keys /\ act[a].pub = key
    BY <1>9, <1>a DEF WriteWrapped, Steady
  <2>2. Settled'
    BY <1>9, <2>1 DEF WriteWrapped, Settled, Sealed
  <2>3. act'[a].pc \in {"toml", "record"}
    BY <1>9, GoingOn DEF WriteWrapped, Bootstrapped, Pcs
  <2>4. Steady(act[a])'
    BY <2>3 DEF Steady
  <2> QED BY <1>0, <1>b, <2>1, <2>2, <2>4, AloneOpen DEF MakingPcs
<1>10. CASE WriteToml(a) \/ Record(a)
  <2>1. act'[a].pc = "idle" /\ act[a].pc \in {"toml", "record"}
    BY <1>10, EndingIdles DEF WriteToml, Record, Idle
  <2>2. UNCHANGED <<key, rules, secrets>>
    BY <1>10 DEF WriteToml, Record
  <2> QED BY <1>0, <2>1, <2>2, CalmOpen, NowhereSteady
<1> QED
  BY <1>1, <1>2, <1>3, <1>4, <1>5, <1>6, <1>7, <1>8, <1>9, <1>10 DEF InitSteps

\* Writers seal again what they have opened.
LEMMA SecretStepsOpen ==
  ASSUME ShapeInv, AloneInv, RecordInv, OpenInv, NEW a \in Actors, SecretSteps(a)
  PROVE  OpenInv'
<1> TypeOK /\ PlaceInv /\ CipherInv
  BY DEF ShapeInv
<1>0. Remembers /\ \A b \in Actors \ {a} : act'[b] = act[b]
  BY StepKeepsOps
<1> SUFFICES ASSUME ~hist'.crash, ~hist'.fail, ~hist'.race PROVE OpenInv'
  BY DEF OpenInv
<1>a. /\ ~hist.crash /\ ~hist.fail /\ ~hist.race
      /\ \A b \in Actors : Steady(act[b])
  BY <1>0 DEF Remembers, OpenInv
<1> USE DEF At
<1>b. ~Fails(a)
  BY DEF Fails, TypeOK
<1>1. CASE \/ \E op \in Writers, n \in Names : BeginSecret(a, op, n)
           \/ BeginSecret(a, "list", NoName)
  <2>1. Steady(act'[a])
    <3>1. Writers \cup {"list"} \subseteq Ops /\ "read" \in Pcs
      BY DEF Ops, Pcs, Writers
    <3>2. act'[a].pc = "read"
      BY <1>1, <3>1, Beginning DEF BeginSecret
    <3> QED BY <3>2, NowhereSteady
  <2>2. UNCHANGED <<key, rules, secrets>> /\ act[a].pc = "idle"
    BY <1>1 DEF BeginSecret, Begin, fileVars
  <2> QED BY <1>0, <2>1, <2>2, CalmOpen DEF UnsettledPcs, BootPcs, UnlinkingPcs
<1>2. CASE ReadSecrets(a)
  <2>1. /\ act[a].op \in Writers \cup {"list"} /\ act[a].pc = "read"
        /\ act[a].op # "list" => act[a].name \in Names
    BY <1>2 DEF ReadSecrets, PlaceInv, Placed
  <2>2. UNCHANGED <<key, rules, secrets>>
    BY <1>2 DEF ReadSecrets, fileVars
  <2>3. Steady(act'[a])
    <3>1. CASE Ending(a)
      BY <3>1, EndingIdles, NowhereSteady DEF Idle
    <3>2. CASE /\ Opens /\ act[a].op \in Writers
               /\ \/ act'[a].pc = "plain"
                  \/ act'[a].pc = "editor" /\ act'[a].pub = secrets.to
      <4>1. \A b \in Actors \ {a} : act[b].pc \notin UnsettledPcs
        <5>1. ASSUME NEW b \in Actors \ {a}, act[b].pc \in UnsettledPcs PROVE FALSE
          <6>1. Placed(act[b], Wants(b)) /\ Alone(b, a)
            BY <1>a DEF PlaceInv, AloneInv
          <6>2. act[b].op \in Makers /\ act[b].pc # "idle"
            BY <5>1, <6>1 DEF Placed, UnsettledPcs, BootPcs, MakingPcs, UnlinkingPcs, Makers
          <6> QED BY <2>1, <3>2, <6>1, <6>2 DEF Alone
        <5> QED BY <5>1
      <4>2. Settled
        BY <1>a, <2>1, <4>1 DEF OpenInv, UnsettledPcs, BootPcs, UnlinkingPcs
      <4>3. Sealed
        BY <3>2, <4>2 DEF Opens, Settled
      <4> QED BY <3>2, <4>3 DEF Steady, Sealed
    <3>3. act[a].op = "list" => Ending(a)
      BY <1>2, <1>b, <2>1, ReadDoes DEF ReadSecrets, Ending
    <3> QED BY <1>2, <1>b, <2>1, <3>1, <3>2, <3>3, ReadDoes DEF Writers
  <2> QED BY <1>0, <2>1, <2>2, <2>3, CalmOpen DEF UnsettledPcs, BootPcs, UnlinkingPcs
<1>3. CASE WritePlain(a)
  <2>1. act[a].pc = "plain" /\ UNCHANGED <<key, rules, secrets>>
    BY <1>3 DEF WritePlain, fileVars
  <2>2. act'[a].pc = "encrypt"
    BY <1>3, GoingOn DEF WritePlain, Pcs
  <2>3. Steady(act'[a])
    BY <1>a, <2>1, <2>2 DEF Steady
  <2> QED BY <1>0, <2>1, <2>3, CalmOpen DEF UnsettledPcs, BootPcs, UnlinkingPcs
<1>4. CASE Encrypt(a)
  <2>1. act[a].pc = "encrypt" /\ UNCHANGED <<key, rules, secrets>>
    BY <1>4 DEF Encrypt, fileVars
  <2>2. Sealed
    BY <1>a, <2>1 DEF Steady
  <2>3. Steady(act'[a])
    <3>1. CASE Ending(a)
      BY <3>1, EndingIdles, NowhereSteady DEF Idle
    <3>2. CASE act'[a].pc = "replace" /\ act'[a].pub = rules
      BY <2>2, <3>2 DEF Steady, Sealed
    <3> QED BY <1>4, <1>b, <3>1, <3>2, EncryptDoes
  <2> QED BY <1>0, <2>1, <2>3, CalmOpen DEF UnsettledPcs, BootPcs, UnlinkingPcs
<1>5. CASE Replace(a) \/ SaveEdited(a)
  <2>1. /\ secrets' = [form |-> "cipher", to |-> act[a].pub, names |-> act[a].seen]
        /\ UNCHANGED <<key, rules>>
        /\ act[a].pc \in {"replace", "editor"}
    BY <1>5 DEF Replace, SaveEdited
  <2>2. Sealed /\ act[a].pub = key
    BY <1>a, <2>1 DEF Steady
  <2>3. Sealed'
    BY <2>1, <2>2 DEF Sealed
  <2>4. act'[a].pc \in {"idle", "clean"}
    <3>1. CASE Replace(a)
      BY <3>1, GoingOn DEF Replace, Pcs
    <3>2. CASE SaveEdited(a)
      BY <3>2, EndingIdles DEF SaveEdited, Idle
    <3> QED BY <1>5, <3>1, <3>2
  <2>5. ASSUME NEW b \in Actors \ {a} PROVE Steady(act[b])'
    <3>1. act[b].pc \notin {"rulesFile", "boot"} \cup BootPcs
      BY <1>a, <2>1, MakerAlone DEF MakerPcs, MakingPcs, BusyPcs, WritingPcs, BootPcs
    <3> QED BY <1>0, <1>a, <2>1, <2>3, <3>1 DEF Steady, BootPcs
  <2>6. Steady(act[a])'
    BY <2>4 DEF Steady
  <2> QED BY <2>3, <2>5, <2>6 DEF OpenInv, Settled
<1>6. CASE CleanUp(a)
  <2>1. act'[a].pc = "idle" /\ act[a].pc = "clean" /\ UNCHANGED <<key, rules, secrets>>
    BY <1>6, EndingIdles DEF CleanUp, Idle, fileVars
  <2> QED BY <1>0, <2>1, CalmOpen, NowhereSteady DEF UnsettledPcs, BootPcs, UnlinkingPcs
<1> QED BY <1>1, <1>2, <1>3, <1>4, <1>5, <1>6 DEF SecretSteps

\* A destroy leaves nothing, and an imported key finds nothing.
LEMMA OtherStepsOpen ==
  ASSUME ShapeInv, AloneInv, RecordInv, OpenInv, NEW a \in Actors,
         KeySteps(a) \/ DestroySteps(a) \/ BeginPut(a) \/ FillToml(a)
  PROVE  OpenInv'
<1> TypeOK /\ PlaceInv /\ CipherInv
  BY DEF ShapeInv
<1>0. Remembers /\ \A b \in Actors \ {a} : act'[b] = act[b]
  BY StepKeepsOps
<1> SUFFICES ASSUME ~hist'.crash, ~hist'.fail, ~hist'.race PROVE OpenInv'
  BY DEF OpenInv
<1>a. /\ ~hist.crash /\ ~hist.fail /\ ~hist.race
      /\ \A b \in Actors : Ready(act[b]) /\ Steady(act[b])
  BY <1>0 DEF Remembers, RecordInv, OpenInv
<1>b. act[a].pc \in MakerPcs => \A b \in Actors \ {a} : act[b].pc \notin BusyPcs
  BY <1>a, MakerAlone
<1> USE DEF At
<1>1. CASE ExportKey(a) \/ BeginImport(a) \/ BeginDestroy(a) \/ BeginPut(a) \/ FillToml(a)
  <2>1. UNCHANGED <<key, rules, secrets>> /\ act[a].pc \in {"idle", "fill"}
    BY <1>1 DEF ExportKey, BeginImport, BeginDestroy, BeginPut, FillToml, Begin, fileVars
  <2>2. act'[a].pc \in {"key", "read", "idle", "copy", "unlinkKey", "fill"}
    <3>1. CASE FillToml(a)
      BY <3>1, EndingIdles DEF FillToml, Idle
    <3> QED BY <1>1, <3>1, BeginsCalm
  <2>3. Steady(act'[a])
    BY <2>2, NowhereSteady
  <2> QED BY <1>0, <2>1, <2>3, CalmOpen DEF UnsettledPcs, BootPcs, UnlinkingPcs
<1>2. CASE CopyKey(a)
  <2>1. act'[a].pc = "idle" /\ key = NoKey /\ act[a].pc = "copy"
    BY <1>2, <1>a, EndingIdles DEF CopyKey, Idle, Ready
  <2>2. Settled
    BY <1>a, <2>1, BusySettled DEF BusyPcs, MakerPcs, UnsettledPcs, BootPcs, UnlinkingPcs
  <2>3. Settled'
    BY <1>2, <2>1, <2>2, FilesAssumption DEF CopyKey, Settled, Sealed
  <2>4. Steady(act[a])'
    BY <2>1 DEF Steady
  <2> QED BY <1>0, <1>b, <2>1, <2>3, <2>4, AloneOpen DEF MakerPcs
<1>3. CASE UnlinkKey(a) \/ UnlinkRules(a) \/ UnlinkSecrets(a)
  <2>1. act'[a].pc \in {"unlinkRules", "unlinkSecrets", "forget"} /\ act[a].pc \in MakerPcs
    BY <1>3, GoingOn DEF UnlinkKey, UnlinkRules, UnlinkSecrets, MakerPcs, UnlinkingPcs, Pcs
  <2>2. Steady(act[a])'
    BY <2>1 DEF Steady
  <2> QED BY <1>0, <1>b, <2>1, <2>2, AloneOpen DEF UnsettledPcs, BootPcs, UnlinkingPcs
<1>4. CASE Forget(a)
  <2>1. act'[a].pc = "idle" /\ act[a].pc = "forget"
    BY <1>4, EndingIdles DEF Forget, Idle
  <2>2. Settled'
    BY <1>4, <1>a, <2>1 DEF Forget, Ready, Settled, UnlinkingPcs
  <2>3. Steady(act[a])'
    BY <2>1 DEF Steady
  <2> QED BY <1>0, <1>b, <2>1, <2>2, <2>3, AloneOpen DEF MakerPcs, UnlinkingPcs
<1> QED BY <1>1, <1>2, <1>3, <1>4 DEF KeySteps, DestroySteps

\* Whatever sequence of commands has led there, outside of init, up, import and
\* destroy the secrets open with the key that is there, as long as none of the
\* commands was cut off, failed or overlapped with another: .sops.yaml names the
\* same key, so every write seals them for it again.
THEOREM SecretsStayOpen == Spec => []SecretsOpen
<1>1. Init => OpenInv
  BY DEF Init, OpenInv, Settled, Steady, Idle, NoFile
<1>2. ShapeInv /\ AloneInv /\ RecordInv /\ OpenInv /\ [Next]_vars => OpenInv'
  <2> SUFFICES ASSUME ShapeInv, AloneInv, RecordInv, OpenInv, [Next]_vars PROVE OpenInv'
    OBVIOUS
  <2>1. CASE UNCHANGED vars
    BY <2>1 DEF vars, fileVars, OpenInv, Settled, Sealed, Steady
  <2>2. CASE Crash
    <3>1. hist'.crash = TRUE
      BY <2>2 DEF Crash, ShapeInv, TypeOK
    <3> QED BY <3>1 DEF OpenInv
  <2> QED BY <2>1, <2>2, InitStepsOpen, SecretStepsOpen, OtherStepsOpen DEF Next
<1>3. ShapeInv /\ OpenInv => SecretsOpen
  <2> SUFFICES ASSUME ShapeInv, OpenInv, ~MakerAtWork,
                      ~hist.crash, ~hist.fail, ~hist.race
               PROVE  secrets.form = "missing" \/ Opens
    BY DEF SecretsOpen
  <2>1. ASSUME NEW a \in Actors, act[a].pc \in UnsettledPcs PROVE FALSE
    <3>1. Placed(act[a], Wants(a))
      BY DEF ShapeInv, PlaceInv
    <3>2. act[a].op \in Makers /\ act[a].pc # "idle"
      BY <2>1, <3>1 DEF Placed, UnsettledPcs, BootPcs, MakingPcs, UnlinkingPcs, Makers
    <3> QED BY <3>2 DEF MakerAtWork, At
  <2>2. Settled
    BY <2>1 DEF OpenInv
  <2> QED BY <2>2 DEF Settled, Sealed, Opens
<1> QED BY <1>1, <1>2, <1>3, ShapeAlways, AloneAlways, RecordAlways, PTL DEF Spec

===============================================================================
