---------------------------- MODULE BundleProofs ----------------------------
(* What is proved of Bundle, for any number of bundles and deploys, any     *)
(* catalog and any ports.                                                   *)
EXTENDS Bundle, TLAPS

(* A build that returned 0 has left an image under its tag.                 *)
Tagged ==
  \A b \in Builds :
    at[b] = "tagged" \/ (at[b] = "built" /\ exit[b] = 0) =>
      images[want[b].model] # None

(* The bundle a run is writing is of an image and written by it alone,      *)
(* unless two have mixed it up.                                             *)
Writes(b) ==
  LET f == want[b].output
  IN  \/ files[f].kind = "mixed"
      \/ files[f] \in [kind : {"part"}, image : Image] /\ Saving(f) = {b}

Writing == \A b \in Builds : at[b] = "saving" => Writes(b)

(* A deploy that got past the port has one, and past docker load a name.    *)
Named ==
  \A d \in Deploys :
    /\ to[d] \in {"valid", "loaded", "started", "attached"} =>
         port[d] \in DOMAIN Ports
    /\ to[d] \in {"loaded", "started", "attached"} => name[d] \in Models

(* What docker build reads, and has read, is its own model's file unless it *)
(* ran beside another.                                                      *)
OwnContext ==
  \A b \in Builds \ overlapped :
    /\ at[b] = "written" => requirements \in {want[b].model, None}
    /\ at[b] = "building" => context[b] = want[b].model

(* An image is found under its own tag.                                     *)
OwnTag ==
  \A m \in Models :
    /\ images[m] # None => images[m].model = m
    /\ site[m] # None => site[m].model = m

(* Every image there is, wherever it is.                                    *)
AllComplete ==
  /\ \A m \in Models : Complete(images[m]) /\ Complete(site[m])
  /\ \A f \in Outputs : Complete(files[f].image)
  /\ \A d \in Deploys : Complete(got[d].image) /\ Complete(box[d])

(* What was loaded has the name of what arrived, or that of the user it was *)
(* asked of.                                                                *)
Running ==
  \A d \in Deploys :
    to[d] = "loaded" =>
      \/ got[d].kind = "whole" /\ name[d] = got[d].image.model
      \/ got[d].kind = "empty" /\ ask[d].tty

IInv == /\ TypeOK /\ Tagged /\ Named /\ Writing
        /\ OwnContext /\ OwnTag /\ OwnDependencies
        /\ AllComplete /\ Running

Sound == TypeOK /\ Tagged /\ Named

----------------------------------------------------------------------------
(* Files                                                                    *)

(* A saved image is a bundle, and so is what is left of one.                *)
LEMMA BundleKinds ==
  /\ \A i \in Image : Whole(i) \in Bundles /\ Part(i) \in Bundles
  /\ \A k \in {"none", "part", "mixed", "empty", "garbled"} : Spoilt(k) \in
     Bundles
BY DEF Whole, Part, Spoilt, Bundles

(* Only a whole bundle has an image in it.                                  *)
LEMMA BundleImage ==
  ASSUME NEW f \in Bundles
  PROVE  /\ f.kind = "whole" => f.image \in Image
         /\ f.image = None \/ f.image \in Image
BY DEF Bundles

----------------------------------------------------------------------------
(* Types                                                                    *)

LEMMA InitSound == Init => Sound
<1> SUFFICES ASSUME Init PROVE Sound  OBVIOUS
<1> USE DEF Init
<1>1. TypeOK  BY BundleKinds DEF TypeOK
<1>2. Tagged  BY DEF Tagged
<1>3. Named  BY DEF Named
<1> QED  BY <1>1, <1>2, <1>3 DEF Sound

(* One step per action; the bundle half and the deploy half leave each      *)
(* other alone.                                                             *)
LEMMA NextSound == Sound /\ Writing /\ [Next]_vars => Sound'
<1> SUFFICES ASSUME Sound, Writing, [Next]_vars PROVE Sound'  OBVIOUS
<1> USE DEF Sound
<1>1. ASSUME NEW b \in Builds, Refused(b) PROVE Sound'
  <2>1. TypeOK'  BY <1>1 DEF Refused, TypeOK, airgap
  <2>2. Tagged'  BY <1>1 DEF Refused, Tagged, TypeOK
  <2>3. Named'  BY <1>1 DEF Refused, Named, airgap
  <2> QED  BY <2>1, <2>2, <2>3
<1>2. ASSUME NEW b \in Builds, WriteRequirements(b) PROVE Sound'
  <2>1. TypeOK'
    BY <1>2 DEF WriteRequirements, Requirements, Underway, TypeOK, airgap
  <2>2. Tagged'  BY <1>2 DEF WriteRequirements, Tagged, TypeOK
  <2>3. Named'  BY <1>2 DEF WriteRequirements, Named, airgap
  <2> QED  BY <2>1, <2>2, <2>3
<1>3. ASSUME NEW b \in Builds, SendContext(b) PROVE Sound'
  <2>1. TypeOK'  BY <1>3 DEF SendContext, TypeOK, airgap
  <2>2. Tagged'  BY <1>3 DEF SendContext, Tagged, TypeOK
  <2>3. Named'  BY <1>3 DEF SendContext, Named, airgap
  <2> QED  BY <2>1, <2>2, <2>3
<1>4. ASSUME NEW b \in Builds, BuildImage(b) PROVE Sound'
  <2>1. TypeOK'
    <3>1. images' \in [Models -> Image \cup {None}]
      BY <1>4 DEF BuildImage, BuiltImages, TypeOK
    <3>2. /\ at' \in [Builds -> {"begin", "written", "building", "built",
                        "tagged", "saving", "ready", "failed", "interrupted"}]
          /\ exit' \in [Builds -> {0, 1}]
      BY <1>4 DEF BuildImage, TypeOK
    <3> QED  BY <1>4, <3>1, <3>2 DEF BuildImage, TypeOK, airgap
  <2>2. Tagged'
    BY <1>4, NoneAssumption DEF BuildImage, BuiltImages, Tagged, TypeOK
  <2>3. Named'  BY <1>4 DEF BuildImage, Named, airgap
  <2> QED  BY <2>1, <2>2, <2>3
<1>5. ASSUME NEW b \in Builds, CleanUp(b) PROVE Sound'
  <2>1. TypeOK'  BY <1>5 DEF CleanUp, TypeOK, airgap
  <2>2. Tagged'  BY <1>5 DEF CleanUp, Tagged, TypeOK
  <2>3. Named'  BY <1>5 DEF CleanUp, Named, airgap
  <2> QED  BY <2>1, <2>2, <2>3
<1>6. ASSUME NEW b \in Builds, StartSave(b) PROVE Sound'
  <2>1. TypeOK'
    <3>1. images[want[b].model] \in Image
      BY <1>6 DEF StartSave, Tagged, TypeOK
    <3>2. files' \in [Outputs -> Bundles]
      BY <1>6, <3>1, BundleKinds DEF StartSave, TypeOK
    <3> QED  BY <1>6, <3>2 DEF StartSave, TypeOK, airgap
  <2>2. Tagged'  BY <1>6 DEF StartSave, Tagged, TypeOK
  <2>3. Named'  BY <1>6 DEF StartSave, Named, airgap
  <2> QED  BY <2>1, <2>2, <2>3
<1>7. ASSUME NEW b \in Builds, Save(b) PROVE Sound'
  <2>1. TypeOK'
    <3>2. files' \in [Outputs -> Bundles]
      <4> DEFINE f == want[b].output
      <4>1. f \in Outputs /\ files[f] \in Bundles  BY DEF TypeOK
      <4>2. files[f].kind = "mixed" \/ files[f].image \in Image
        BY <1>7 DEF Save, Writing, Writes
      <4>3. \/ UNCHANGED files
            \/ \E new \in {Whole(files[f].image), Spoilt("part"), Spoilt("empty")} :
                 files' = [files EXCEPT ![f] = IF files[f].kind = "mixed"
                                               THEN files[f] ELSE new]
        BY <1>7 DEF Save, TypeOK
      <4> HIDE DEF f
      <4>4. UNCHANGED files \/ \E new \in Bundles : files' = [files EXCEPT ![f] = new]
        <5>1. CASE files[f].kind = "mixed"  BY <4>1, <4>3, <5>1
        <5>2. CASE files[f].kind # "mixed"
          BY <4>2, <4>3, <5>2, BundleKinds
        <5> QED  BY <5>1, <5>2
      <4> QED  BY <4>1, <4>4 DEF TypeOK
    <3>3. at' \in [Builds -> {"begin", "written", "building", "built",
                        "tagged", "saving", "ready", "failed", "interrupted"}]
      BY <1>7 DEF Save, TypeOK
    <3> QED  BY <1>7, <3>2, <3>3 DEF Save, TypeOK, airgap
  <2>2. Tagged'  BY <1>7 DEF Save, Tagged, TypeOK
  <2>3. Named'  BY <1>7 DEF Save, Named, airgap
  <2> QED  BY <2>1, <2>2, <2>3
<1>8. ASSUME NEW b \in Builds, Interrupt(b) PROVE Sound'
  <2>1. TypeOK'  BY <1>8 DEF Interrupt, TypeOK, airgap
  <2>2. Tagged'  BY <1>8 DEF Interrupt, Tagged, TypeOK
  <2>3. Named'  BY <1>8 DEF Interrupt, Named, airgap
  <2> QED  BY <2>1, <2>2, <2>3
<1>9. ASSUME NEW d \in Deploys, Carry(d) PROVE Sound'
  <2>1. TypeOK'  BY <1>9, BundleKinds DEF Carry, TypeOK, workshop
  <2>2. Tagged'  BY <1>9 DEF Carry, Tagged, workshop
  <2>3. Named'  BY <1>9 DEF Carry, Named, TypeOK
  <2> QED  BY <2>1, <2>2, <2>3
<1>10. ASSUME NEW d \in Deploys, Validate(d) PROVE Sound'
  <2>1. TypeOK'
    <3>1. to' \in [Deploys -> {"begin", "carried", "valid", "loaded",
       "started",
                             "attached", "ended", "failed"}]
      BY <1>10 DEF Validate, TypeOK
    <3>2. port' \in [Deploys -> DOMAIN Ports \cup {None}]
      BY <1>10 DEF Validate, Free, TypeOK
    <3> QED  BY <1>10, <3>1, <3>2 DEF Validate, TypeOK, workshop
  <2>2. Tagged'  BY <1>10 DEF Validate, Tagged, workshop
  <2>3. Named'
    <3>1. CASE to' = [to EXCEPT ![d] = "failed"] /\ UNCHANGED port
      BY <1>10, <3>1 DEF Validate, Named, TypeOK
    <3>2. ASSUME NEW i \in Free, port' = [port EXCEPT ![d] = i] PROVE Named'
      BY <1>10, <3>2 DEF Validate, Free, Named, TypeOK
    <3> QED  BY <1>10, <3>1, <3>2 DEF Validate
  <2> QED  BY <2>1, <2>2, <2>3
<1>11. ASSUME NEW d \in Deploys, Load(d) PROVE Sound'
  <2> DEFINE i == got[d].image
  <2>1. got[d] \in Bundles /\ (got[d].kind = "whole" => i \in Image /\ i.model
     \in Models)
    BY BundleImage DEF TypeOK, Image
  <2>2. CASE got[d].kind = "whole"
    <3>1. /\ site' = [site EXCEPT ![i.model] = i]
          /\ name' = [name EXCEPT ![d] = i.model]
          /\ to' = [to EXCEPT ![d] = "loaded"]
          /\ UNCHANGED <<workshop, ask, got, port, bound, box>>
          /\ to[d] = "valid"
      BY <1>11, <2>2 DEF Load
    <3> HIDE DEF i
    <3>2. TypeOK'  BY <2>1, <2>2, <3>1 DEF TypeOK, workshop
    <3>3. Tagged' /\ Named'
      BY <2>1, <2>2, <3>1 DEF Tagged, Named, TypeOK, workshop
    <3> QED  BY <3>2, <3>3
  <2>3. CASE got[d].kind # "whole"
    <3>1. /\ \/ /\ \E m \in Models : name' = [name EXCEPT ![d] = m]
                /\ to' = [to EXCEPT ![d] = "loaded"]
             \/ to' = [to EXCEPT ![d] = "failed"] /\ UNCHANGED name
          /\ UNCHANGED <<workshop, ask, got, port, site, bound, box>>
          /\ to[d] = "valid"
      BY <1>11, <2>3 DEF Load
    <3>2. TypeOK'  BY <3>1 DEF TypeOK, workshop
    <3>3. Tagged' /\ Named'  BY <3>1 DEF Tagged, Named, TypeOK, workshop
    <3> QED  BY <3>2, <3>3
  <2> QED  BY <2>2, <2>3
<1>12. ASSUME NEW d \in Deploys, Run(d) PROVE Sound'
  <2>1. TypeOK'
    <3>1. to' \in [Deploys -> {"begin", "carried", "valid", "loaded",
       "started",
                             "attached", "ended", "failed"}]
      BY <1>12 DEF Run, TypeOK
    <3>2. bound' \in [DOMAIN Ports -> Deploys \cup {"other", None}]
      BY <1>12 DEF Run, TypeOK
    <3>3. box' \in [Deploys -> Image \cup {None}]
      BY <1>12 DEF Run, Named, TypeOK
    <3> QED  BY <1>12, <3>1, <3>2, <3>3 DEF Run, TypeOK, workshop
  <2>2. Tagged'  BY <1>12 DEF Run, Tagged, workshop
  <2>3. Named'  BY <1>12 DEF Run, Named, TypeOK
  <2> QED  BY <2>1, <2>2, <2>3
<1>13. ASSUME NEW d \in Deploys, ContainerEnds(d) PROVE Sound'
  <2>1. TypeOK'
    <3>1. to' \in [Deploys -> {"begin", "carried", "valid", "loaded",
       "started",
                             "attached", "ended", "failed"}]
      BY <1>13 DEF ContainerEnds, TypeOK
    <3>2. /\ bound' \in [DOMAIN Ports -> Deploys \cup {"other", None}]
          /\ box' \in [Deploys -> Image \cup {None}]
      BY <1>13 DEF ContainerEnds, TypeOK
    <3> QED  BY <1>13, <3>1, <3>2 DEF ContainerEnds, TypeOK, workshop
  <2>2. Tagged'  BY <1>13 DEF ContainerEnds, Tagged, workshop
  <2>3. Named'  BY <1>13 DEF ContainerEnds, Named, TypeOK
  <2> QED  BY <2>1, <2>2, <2>3
<1>14. ASSUME NEW p \in DOMAIN Ports, OtherProgram(p) PROVE Sound'
  BY <1>14 DEF OtherProgram, TypeOK, Tagged, Named, workshop
<1>15. CASE UNCHANGED vars
  BY <1>15 DEF vars, workshop, airgap, TypeOK, Tagged, Named
<1> QED
  BY <1>1, <1>2, <1>3, <1>4, <1>5, <1>6, <1>7, <1>8, <1>9, <1>10, <1>11,
     <1>12, <1>13, <1>14, <1>15
  DEF Next

----------------------------------------------------------------------------
(* Who writes which file                                                    *)

LEMMA InitWriting == Init => Writing
BY DEF Init, Writing

LEMMA NextWriting == Sound /\ Writing /\ [Next]_vars => Writing'
<1> SUFFICES ASSUME Sound, Writing, [Next]_vars PROVE Writing'  OBVIOUS
<1> USE DEF Sound
(* Nobody starts or ends writing, and no file changes.                      *)
<1> DEFINE Quiet ==
      /\ \A c \in Builds : at'[c] = "saving" <=> at[c] = "saving"
      /\ files' = files /\ want' = want
<1>A. ASSUME Quiet PROVE Writing'
  <2>1. \A f : Saving(f)' = Saving(f)  BY <1>A DEF Saving
  <2> QED  BY <1>A, <2>1 DEF Writing, Writes
<1>1. ASSUME NEW b \in Builds, Refused(b) PROVE Writing'
  <2>1. Quiet  BY <1>1 DEF Refused, TypeOK
  <2> QED  BY <1>A, <2>1
<1>2. ASSUME NEW b \in Builds, WriteRequirements(b) PROVE Writing'
  <2>1. Quiet  BY <1>2 DEF WriteRequirements, TypeOK
  <2> QED  BY <1>A, <2>1
<1>3. ASSUME NEW b \in Builds, SendContext(b) PROVE Writing'
  <2>1. Quiet  BY <1>3 DEF SendContext, TypeOK
  <2> QED  BY <1>A, <2>1
<1>4. ASSUME NEW b \in Builds, BuildImage(b) PROVE Writing'
  <2>1. Quiet  BY <1>4 DEF BuildImage, TypeOK
  <2> QED  BY <1>A, <2>1
<1>5. ASSUME NEW b \in Builds, CleanUp(b) PROVE Writing'
  <2>1. Quiet  BY <1>5 DEF CleanUp, TypeOK
  <2> QED  BY <1>A, <2>1
<1>6. ASSUME NEW b \in Builds, StartSave(b) PROVE Writing'
  <2> DEFINE f == want[b].output
  <2>1. /\ f \in Outputs /\ files \in [Outputs -> Bundles] /\ at[b] = "tagged"
        /\ images[want[b].model] \in Image
    BY <1>6 DEF StartSave, Tagged, TypeOK
  <2>2. /\ files' = [files EXCEPT ![f] =
                       IF Saving(f) = {} THEN Part(images[want[b].model])
                                         ELSE Spoilt("mixed")]
        /\ at' = [at EXCEPT ![b] = "saving"] /\ want' = want
    BY <1>6 DEF StartSave
  <2>3. \A g : Saving(g)' = IF g = f THEN Saving(f) \cup {b} ELSE Saving(g)
    BY <2>1, <2>2 DEF Saving, TypeOK
  <2> SUFFICES ASSUME NEW c \in Builds, at'[c] = "saving" PROVE Writes(c)'
    BY DEF Writing
  <2>4. want[c].output \in Outputs  BY DEF TypeOK
  <2>5. CASE want[c].output = f
    <3>1. CASE Saving(f) = {}
      <4>1. c = b
        <5>1. c # b => at[c] = "saving"  BY <2>2 DEF TypeOK
        <5>2. at[c] = "saving" => c \in Saving(f)  BY <2>5 DEF Saving
        <5> QED  BY <3>1, <5>1, <5>2
      <4>2. Saving(f)' = {b}
        <5>1. Saving(f)' = Saving(f) \cup {b}  BY <2>2 DEF Saving, TypeOK
        <5> QED  BY <3>1, <5>1
      <4>3. files'[f] = Part(images[want[b].model])  BY <2>1, <2>2, <3>1
      <4> QED  BY <2>1, <2>2, <4>1, <4>2, <4>3 DEF Writes, Part
    <3>2. CASE Saving(f) # {}
      <4>1. files'[f] = Spoilt("mixed")  BY <2>1, <2>2, <3>2
      <4> QED  BY <2>2, <2>5, <4>1 DEF Writes, Spoilt
    <3> QED  BY <3>1, <3>2
  <2>6. CASE want[c].output # f
    <3>1. c # b  BY <2>6
    <3>2. at[c] = "saving"  BY <2>2, <3>1 DEF TypeOK
    <3>3. files'[want[c].output] = files[want[c].output]
      BY <2>1, <2>2, <2>4, <2>6
    <3>4. Saving(want[c].output)' = Saving(want[c].output)
      BY <2>2, <2>3, <2>6 DEF Saving
    <3> HIDE DEF f
    <3> QED  BY <2>2, <3>2, <3>3, <3>4 DEF Writing, Writes
  <2> QED  BY <2>5, <2>6
(* One who ends leaves a file of two as it is, and its own to itself.       *)
<1> DEFINE Leaves(b) ==
      /\ at'[b] # "saving" /\ \A c \in Builds \ {b} : at'[c] = at[c]
      /\ want' = want
      /\ \A f \in Outputs :
           \/ files'[f] = files[f]
           \/ b \in Saving(f) /\ files[f].kind # "mixed"
<1>B. ASSUME NEW b \in Builds, Leaves(b) PROVE Writing'
  <2> SUFFICES ASSUME NEW c \in Builds, at'[c] = "saving" PROVE Writes(c)'
    BY DEF Writing
  <2> DEFINE f == want[c].output
  <2>1. c # b /\ at[c] = "saving" /\ f \in Outputs  BY <1>B DEF TypeOK
  <2>2. Writes(c) /\ c \in Saving(f)  BY <2>1 DEF Writing, Saving
  <2>3. files'[f] = files[f]  BY <1>B, <2>1, <2>2 DEF Writes
  <2>4. Saving(f)' = Saving(f) \ {b}  BY <1>B DEF Saving
  <2>5. want' = want  BY <1>B
  <2> HIDE DEF Leaves
  <2> QED  BY <2>1, <2>2, <2>3, <2>4, <2>5 DEF Writes
<1>7. ASSUME NEW b \in Builds, Save(b) PROVE Writing'
  <2>1. at'[b] # "saving" /\ \A c \in Builds \ {b} : at'[c] = at[c]
    BY <1>7 DEF Save, TypeOK
  <2>2. \A f \in Outputs :
          \/ files'[f] = files[f]
          \/ b \in Saving(f) /\ files[f].kind # "mixed"
    BY <1>7 DEF Save, Saving, TypeOK
  <2>3. want' = want  BY <1>7 DEF Save
  <2> QED  BY <1>B, <2>1, <2>2, <2>3
<1>8. ASSUME NEW b \in Builds, Interrupt(b) PROVE Writing'
  <2>1. Leaves(b)  BY <1>8 DEF Interrupt, TypeOK
  <2> QED  BY <1>B, <2>1
<1>9. CASE UNCHANGED workshop
  BY <1>9 DEF workshop, Writing, Writes, Saving
<1>10. CASE UNCHANGED vars
  BY <1>9, <1>10 DEF vars
<1>11. ASSUME NEW d \in Deploys,
              Carry(d) \/ Validate(d) \/ Load(d) \/ Run(d) \/ ContainerEnds(d)
       PROVE  Writing'
  BY <1>9, <1>11 DEF Carry, Validate, Load, Run, ContainerEnds
<1>12. ASSUME NEW p \in DOMAIN Ports, OtherProgram(p) PROVE Writing'
  BY <1>9, <1>12 DEF OtherProgram
<1> QED
  BY <1>1, <1>2, <1>3, <1>4, <1>5, <1>6, <1>7, <1>8, <1>10, <1>11, <1>12
  DEF Next

----------------------------------------------------------------------------
(* What an image was built from                                             *)

(* A build in progress and every image taken together: the context a build  *)
(* was sent is where the dependencies of its image come from.               *)
Provenance == OwnContext /\ OwnTag /\ OwnDependencies

LEMMA InitProvenance == Init => Provenance
BY DEF Init, Provenance, OwnContext, OwnTag, OwnDependencies

LEMMA NextProvenance == Sound /\ Provenance /\ [Next]_vars => Provenance'
<1> SUFFICES ASSUME Sound, Provenance, [Next]_vars PROVE Provenance'  OBVIOUS
<1> USE DEF Sound, Provenance
<1>1. ASSUME NEW b \in Builds, Refused(b) PROVE Provenance'
  <2>1. OwnContext'  BY <1>1 DEF Refused, OwnContext, TypeOK
  <2>2. OwnTag'  BY <1>1 DEF Refused, OwnTag, TypeOK, airgap
  <2>3. OwnDependencies'  BY <1>1 DEF Refused, OwnDependencies, TypeOK
  <2> QED  BY <2>1, <2>2, <2>3
<1>2. ASSUME NEW b \in Builds, WriteRequirements(b) PROVE Provenance'
  <2>1. OwnContext'
    BY <1>2 DEF WriteRequirements, OwnContext, TypeOK, Underway, Requirements
  <2>2. OwnTag'  BY <1>2 DEF WriteRequirements, OwnTag, TypeOK, airgap
  <2>3. OwnDependencies'
    BY <1>2 DEF WriteRequirements, OwnDependencies, TypeOK
  <2> QED  BY <2>1, <2>2, <2>3
<1>3. ASSUME NEW b \in Builds, SendContext(b) PROVE Provenance'
  <2>1. OwnContext'  BY <1>3 DEF SendContext, OwnContext, TypeOK
  <2>2. OwnTag'  BY <1>3 DEF SendContext, OwnTag, TypeOK, airgap
  <2>3. OwnDependencies'  BY <1>3 DEF SendContext, OwnDependencies, TypeOK
  <2> QED  BY <2>1, <2>2, <2>3
<1>4. ASSUME NEW b \in Builds, BuildImage(b) PROVE Provenance'
  <2>1. OwnContext'  BY <1>4 DEF BuildImage, OwnContext, TypeOK
  <2>2. OwnTag'  BY <1>4 DEF BuildImage, OwnTag, TypeOK, airgap
  <2>3. OwnDependencies'
    <3>1. CASE UNCHANGED images
      BY <1>4, <3>1 DEF BuildImage, OwnDependencies
    <3>2. ASSUME NEW i \in BuiltImages(b),
                 images' = [images EXCEPT ![i.model] = i]
          PROVE  OwnDependencies'
      <4>1. i.model = want[b].model /\ i.deps = context[b] /\ i.by = b
        BY DEF BuiltImages
      <4>2. i.deps = i.model \/ b \in overlapped
        BY <1>4, <4>1 DEF BuildImage, OwnContext
      <4>3. overlapped' = overlapped  BY <1>4 DEF BuildImage
      <4> QED  BY <3>2, <4>1, <4>2, <4>3 DEF OwnDependencies, TypeOK
    <3> QED  BY <1>4, <3>1, <3>2 DEF BuildImage
  <2> QED  BY <2>1, <2>2, <2>3
<1>5. ASSUME NEW b \in Builds, CleanUp(b) PROVE Provenance'
  <2>1. OwnContext'  BY <1>5 DEF CleanUp, OwnContext, TypeOK
  <2>2. OwnTag'  BY <1>5 DEF CleanUp, OwnTag, TypeOK, airgap
  <2>3. OwnDependencies'  BY <1>5 DEF CleanUp, OwnDependencies, TypeOK
  <2> QED  BY <2>1, <2>2, <2>3
<1>6. ASSUME NEW b \in Builds, StartSave(b) PROVE Provenance'
  <2>1. OwnContext'  BY <1>6 DEF StartSave, OwnContext, TypeOK
  <2>2. OwnTag'  BY <1>6 DEF StartSave, OwnTag, TypeOK, airgap
  <2>3. OwnDependencies'  BY <1>6 DEF StartSave, OwnDependencies, TypeOK
  <2> QED  BY <2>1, <2>2, <2>3
<1>7. ASSUME NEW b \in Builds, Save(b) PROVE Provenance'
  <2>1. OwnContext'  BY <1>7 DEF Save, OwnContext, TypeOK
  <2>2. OwnTag'  BY <1>7 DEF Save, OwnTag, TypeOK, airgap
  <2>3. OwnDependencies'  BY <1>7 DEF Save, OwnDependencies, TypeOK
  <2> QED  BY <2>1, <2>2, <2>3
<1>8. ASSUME NEW b \in Builds, Interrupt(b) PROVE Provenance'
  <2>1. OwnContext'  BY <1>8 DEF Interrupt, OwnContext, TypeOK
  <2>2. OwnTag'  BY <1>8 DEF Interrupt, OwnTag, TypeOK, airgap
  <2>3. OwnDependencies'  BY <1>8 DEF Interrupt, OwnDependencies, TypeOK
  <2> QED  BY <2>1, <2>2, <2>3
<1>9. ASSUME NEW d \in Deploys, Carry(d) PROVE Provenance'
  <2>1. OwnTag'  BY <1>9 DEF Carry, OwnTag, TypeOK, workshop
  <2> QED  BY <1>9, <2>1 DEF Carry, OwnContext, OwnDependencies, workshop
<1>10. ASSUME NEW d \in Deploys, Validate(d) PROVE Provenance'
  <2>1. OwnTag'  BY <1>10 DEF Validate, OwnTag, TypeOK, workshop
  <2> QED  BY <1>10, <2>1 DEF Validate, OwnContext, OwnDependencies, workshop
<1>11. ASSUME NEW d \in Deploys, Load(d) PROVE Provenance'
  <2>1. OwnTag'  BY <1>11 DEF Load, OwnTag, TypeOK, workshop
  <2> QED  BY <1>11, <2>1 DEF Load, OwnContext, OwnDependencies, workshop
<1>12. ASSUME NEW d \in Deploys, Run(d) PROVE Provenance'
  <2>1. OwnTag'  BY <1>12 DEF Run, OwnTag, TypeOK, workshop
  <2> QED  BY <1>12, <2>1 DEF Run, OwnContext, OwnDependencies, workshop
<1>13. ASSUME NEW d \in Deploys, ContainerEnds(d) PROVE Provenance'
  <2>1. OwnTag'  BY <1>13 DEF ContainerEnds, OwnTag, TypeOK, workshop
  <2> QED
    BY <1>13, <2>1 DEF ContainerEnds, OwnContext, OwnDependencies, workshop
<1>14. ASSUME NEW p \in DOMAIN Ports, OtherProgram(p) PROVE Provenance'
  BY <1>14 DEF OtherProgram, OwnContext, OwnTag, OwnDependencies, workshop
<1>15. CASE UNCHANGED vars
  BY <1>15 DEF vars, workshop, airgap, OwnContext, OwnTag, OwnDependencies
<1> QED
  BY <1>1, <1>2, <1>3, <1>4, <1>5, <1>6, <1>7, <1>8, <1>9, <1>10, <1>11,
     <1>12, <1>13, <1>14, <1>15
  DEF Next

----------------------------------------------------------------------------
(* Remote code                                                              *)

(* What docker build can leave under the tag has every repository staged.   *)
LEMMA BuiltComplete ==
  ASSUME NEW b \in Builds, NEW i \in BuiltImages(b)
  PROVE  i \in Image /\ Complete(i)
BY DEF BuiltImages, Verified, Complete

LEMMA NoneComplete == Complete(None)
BY DEF Complete

LEMMA InitComplete == Init => AllComplete
BY NoneComplete DEF Init, AllComplete, Spoilt

LEMMA NextComplete == Sound /\ AllComplete /\ [Next]_vars => AllComplete'
<1> SUFFICES ASSUME Sound, AllComplete, [Next]_vars PROVE AllComplete' OBVIOUS
<1> USE NoneComplete DEF Sound
<1>1. ASSUME NEW b \in Builds, Refused(b) PROVE AllComplete'
  BY <1>1 DEF Refused, AllComplete, TypeOK, airgap
<1>2. ASSUME NEW b \in Builds, WriteRequirements(b) PROVE AllComplete'
  BY <1>2 DEF WriteRequirements, AllComplete, TypeOK, airgap
<1>3. ASSUME NEW b \in Builds, SendContext(b) PROVE AllComplete'
  BY <1>3 DEF SendContext, AllComplete, TypeOK, airgap
<1>4. ASSUME NEW b \in Builds, BuildImage(b) PROVE AllComplete'
  BY <1>4, BuiltComplete DEF BuildImage, AllComplete, TypeOK, airgap
<1>5. ASSUME NEW b \in Builds, CleanUp(b) PROVE AllComplete'
  BY <1>5 DEF CleanUp, AllComplete, TypeOK, airgap
<1>6. ASSUME NEW b \in Builds, StartSave(b) PROVE AllComplete'
  BY <1>6 DEF StartSave, AllComplete, TypeOK, airgap, Part, Spoilt
<1>7. ASSUME NEW b \in Builds, Save(b) PROVE AllComplete'
  <2> DEFINE f == want[b].output
  <2>1. f \in Outputs /\ Complete(files[f].image)  BY DEF AllComplete, TypeOK
  <2>2. \A g \in Outputs : Complete(files'[g].image)
    <3>1. files' = files \/ \E new \in {Whole(files[f].image), Spoilt("part"),
                                       Spoilt("empty")} :
            \/ files' = [files EXCEPT ![f] = new]
            \/ files' = [files EXCEPT ![f] = files[f]]
      BY <1>7 DEF Save
    <3>2. \A new \in {Whole(files[f].image), Spoilt("part"), Spoilt("empty")} :
            Complete(new.image)
      BY <2>1 DEF Whole, Spoilt
    <3> HIDE DEF f
    <3> QED  BY <2>1, <3>1, <3>2 DEF AllComplete, TypeOK
  <2> QED  BY <1>7, <2>2 DEF Save, AllComplete, airgap
<1>8. ASSUME NEW b \in Builds, Interrupt(b) PROVE AllComplete'
  BY <1>8 DEF Interrupt, AllComplete, TypeOK, airgap
<1>9. ASSUME NEW d \in Deploys, Carry(d) PROVE AllComplete'
  BY <1>9 DEF Carry, AllComplete, TypeOK, workshop, Spoilt
<1>10. ASSUME NEW d \in Deploys, Validate(d) PROVE AllComplete'
  BY <1>10 DEF Validate, AllComplete, TypeOK, workshop
<1>11. ASSUME NEW d \in Deploys, Load(d) PROVE AllComplete'
  BY <1>11 DEF Load, AllComplete, TypeOK, workshop
<1>12. ASSUME NEW d \in Deploys, Run(d) PROVE AllComplete'
  BY <1>12 DEF Run, AllComplete, Named, TypeOK, workshop
<1>13. ASSUME NEW d \in Deploys, ContainerEnds(d) PROVE AllComplete'
  BY <1>13 DEF ContainerEnds, AllComplete, TypeOK, workshop
<1>14. ASSUME NEW p \in DOMAIN Ports, OtherProgram(p) PROVE AllComplete'
  BY <1>14 DEF OtherProgram, AllComplete, workshop
<1>15. CASE UNCHANGED vars
  BY <1>15 DEF vars, workshop, airgap, AllComplete
<1> QED
  BY <1>1, <1>2, <1>3, <1>4, <1>5, <1>6, <1>7, <1>8, <1>9, <1>10, <1>11,
     <1>12, <1>13, <1>14, <1>15
  DEF Next

----------------------------------------------------------------------------
(* Containers                                                               *)

LEMMA InitRunning == Init => Running
BY DEF Init, Running

LEMMA NextRunning == Sound /\ Running /\ [Next]_vars => Running'
<1> SUFFICES ASSUME Sound, Running, [Next]_vars PROVE Running' OBVIOUS
<1> USE DEF Sound
<1>1. ASSUME NEW b \in Builds, Refused(b) PROVE Running'
  BY <1>1 DEF Refused, Running, airgap
<1>2. ASSUME NEW b \in Builds, WriteRequirements(b) PROVE Running'
  BY <1>2 DEF WriteRequirements, Running, airgap
<1>3. ASSUME NEW b \in Builds, SendContext(b) PROVE Running'
  BY <1>3 DEF SendContext, Running, airgap
<1>4. ASSUME NEW b \in Builds, BuildImage(b) PROVE Running'
  BY <1>4 DEF BuildImage, Running, airgap
<1>5. ASSUME NEW b \in Builds, CleanUp(b) PROVE Running'
  BY <1>5 DEF CleanUp, Running, airgap
<1>6. ASSUME NEW b \in Builds, StartSave(b) PROVE Running'
  BY <1>6 DEF StartSave, Running, airgap
<1>7. ASSUME NEW b \in Builds, Save(b) PROVE Running'
  BY <1>7 DEF Save, Running, airgap
<1>8. ASSUME NEW b \in Builds, Interrupt(b) PROVE Running'
  BY <1>8 DEF Interrupt, Running, airgap
<1>9. ASSUME NEW d \in Deploys, Carry(d) PROVE Running'
  BY <1>9 DEF Carry, Running, TypeOK
<1>10. ASSUME NEW d \in Deploys, Validate(d) PROVE Running'
  BY <1>10 DEF Validate, Running, TypeOK
<1>11. ASSUME NEW d \in Deploys, Load(d) PROVE Running'
  BY <1>11 DEF Load, Running, TypeOK
<1>12. ASSUME NEW d \in Deploys, Run(d) PROVE Running'
  BY <1>12 DEF Run, Running, TypeOK
<1>13. ASSUME NEW d \in Deploys, ContainerEnds(d) PROVE Running'
  BY <1>13 DEF ContainerEnds, Running, TypeOK
<1>14. ASSUME NEW p \in DOMAIN Ports, OtherProgram(p) PROVE Running'
  BY <1>14 DEF OtherProgram, Running
<1>15. CASE UNCHANGED vars
  BY <1>15 DEF vars, airgap, Running
<1> QED
  BY <1>1, <1>2, <1>3, <1>4, <1>5, <1>6, <1>7, <1>8, <1>9, <1>10, <1>11,
     <1>12, <1>13, <1>14, <1>15
  DEF Next

(* Only docker run makes a deploy say that it has started a container.      *)
LEMMA StartedServes ==
  ASSUME Sound, OwnTag, Running, [Next]_vars, NEW d \in Deploys,
         to[d] # "started", to'[d] = "started"
  PROVE  Serves(d)'
<1> USE DEF Sound
<1>1. ASSUME NEW c \in Deploys,
             Carry(c) \/ Validate(c) \/ Load(c) \/ ContainerEnds(c)
      PROVE  FALSE
  BY <1>1 DEF Carry, Validate, Load, ContainerEnds, TypeOK
<1>2. ASSUME UNCHANGED airgap PROVE FALSE
  BY <1>2 DEF airgap
<1>3. ASSUME NEW b \in Builds,
             \/ Refused(b) \/ WriteRequirements(b) \/ SendContext(b)
             \/ BuildImage(b) \/ CleanUp(b) \/ StartSave(b) \/ Save(b)
             \/ Interrupt(b)
      PROVE  FALSE
  <2>1. UNCHANGED airgap
    BY <1>3 DEF Refused, WriteRequirements, SendContext, BuildImage, CleanUp,
                StartSave, Save, Interrupt
  <2> QED  BY <1>2, <2>1
<1>4. ASSUME NEW p \in DOMAIN Ports, OtherProgram(p) PROVE FALSE
  BY <1>4 DEF OtherProgram
<1>5. ASSUME NEW c \in Deploys, Run(c) PROVE Serves(d)'
  <2>1. c = d /\ to[d] = "loaded"  BY <1>5 DEF Run, TypeOK
  <2>2. port[d] \in DOMAIN Ports /\ name[d] \in Models
    BY <2>1 DEF Named
  <2>3. /\ site[name[d]] # None
        /\ bound' = [bound EXCEPT ![port[d]] = d]
        /\ box' = [box EXCEPT ![d] = site[name[d]]]
    BY <1>5, <2>1 DEF Run, Failed, TypeOK
  <2>4. UNCHANGED <<ask, got, port, name>>  BY <1>5 DEF Run
  <2>5. bound'[port[d]] = d /\ box'[d] = site[name[d]]
    BY <2>2, <2>3 DEF TypeOK
  <2>6. box'[d] # None /\ box'[d].model = name[d]
    BY <2>2, <2>3, <2>5 DEF OwnTag
  <2> QED  BY <2>1, <2>4, <2>5, <2>6 DEF Serves, Running
<1> QED  BY <1>1, <1>2, <1>3, <1>4, <1>5 DEF Next, vars

----------------------------------------------------------------------------
(* The theorems                                                             *)

LEMMA Invariant == Spec => []IInv
<1>1. Init => IInv
  BY InitSound, InitWriting, InitProvenance, InitComplete, InitRunning
  DEF IInv, Sound, Provenance
<1>2. IInv /\ [Next]_vars => IInv'
  BY NextSound, NextWriting, NextProvenance, NextComplete, NextRunning
  DEF IInv, Sound, Provenance
<1> QED  BY <1>1, <1>2, PTL DEF Spec

(* Type correctness, for runs that refuse, fail, are interrupted or race.   *)
THEOREM BundleTypeCorrect == Spec => []TypeOK
<1>1. IInv => TypeOK  BY DEF IInv
<1> QED  BY <1>1, Invariant, PTL

(* Only a bundle that was built beside another can have dependencies that   *)
(* are not its model's: nothing a failed or interrupted run leaves behind   *)
(* in the checkout reaches a later image.                                   *)
THEOREM DependenciesOwn == Spec => []OwnDependencies
<1>1. IInv => OwnDependencies  BY DEF IInv
<1> QED  BY <1>1, Invariant, PTL

(* No bundle, no loaded image and no container lacks remote code its model  *)
(* refers to, whichever pre-loads failed.                                   *)
THEOREM OfflineComplete == Spec => []RunsOffline
<1>1. IInv => RunsOffline  BY DEF IInv, AllComplete, RunsOffline
<1> QED  BY <1>1, Invariant, PTL

(* A deploy says it started a container only where one has come up on its   *)
(* port with the image it named, from a file that arrived whole or an empty *)
(* one whose user named the image.                                          *)
THEOREM StartedRuns == Spec => StartedRan
<1>1. /\ IInv /\ [Next]_vars
      => \A d \in Deploys : to[d] # "started" /\ to'[d] = "started" => Serves(d)'
  BY StartedServes DEF IInv, Sound
<1> QED  BY <1>1, Invariant, PTL DEF Spec, StartedRan
=============================================================================
