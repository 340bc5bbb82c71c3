------------------------------- MODULE Bundle -------------------------------
(* From the catalog to a container on a machine without a network: bundle   *)
(* and deploy of src/jina-on-prem.py, and the image build between them,     *)
(* src/docker/download_model.py with verify_staging.py.  Any number of      *)
(* bundles run at a time from one checkout, and of deploys on one host.     *)
(*                                                                          *)
(* One runtime, so that a model is its tag.  The remote code of a model is  *)
(* one module for each repository its auto_map names, its own included; a   *)
(* config that does not parse names none.                                   *)
EXTENDS Naturals, Sequences, FiniteSets

CONSTANTS Builds,  \* runs of bundle
          Deploys, \* runs of deploy
          Models,  \* of the catalog
          Pinned,  \* those with dependencies of their own
          Refers,  \* the repositories a model's auto_map names
          Absent,  \* models whose own module is not in their snapshot
          Loads,   \* models one of the two pre-loads can load
          Outputs, \* file names given with --output
          Ports,   \* the preferred port and those after it, in order
          None

ASSUME BundleAssumption ==
  /\ None \notin Models \cup Deploys \cup DOMAIN Ports
  /\ "other" \notin Deploys /\ None # "other"
  /\ Pinned \subseteq Models /\ Loads \subseteq Models
  /\ DOMAIN Refers = Models /\ Absent \subseteq Models

VARIABLES requirements, \* whose lines docker/model-requirements.txt has, or None
          images,       \* docker's images where bundles are made, by tag
          files,        \* the bundles written, by name
          want,         \* a bundle's model and output
          at,           \* how far it is
          context,      \* the dependencies its build got
          exit,         \* what docker build returned
          overlapped,   \* bundles that another was building beside
          ask,          \* a deploy's file, --detach, and whether it has a terminal
          to,           \* how far it is
          got,          \* the file as it arrived
          port, name,   \* what it will publish and run
          site,         \* docker's images where bundles are deployed
          bound,        \* who has a port: a deploy's container, "other", None
          box           \* the image of its container

workshop == <<requirements, images, files, want, at, context, exit, overlapped>>
airgap   == <<ask, to, got, port, name, site, bound, box>>
vars     == <<workshop, airgap>>

----------------------------------------------------------------------------
(* The image: download_model.py *)

Image == [model : Models, deps : Models, by : Builds,
          staged : SUBSET UNION {Refers[m] : m \in Models}]

ASSUME NoneAssumption == None \notin Image

(* The remote code there is to stage: a module of the model's own that its  *)
(* snapshot does not have is passed over.                                   *)
Code(m) == IF m \in Absent THEN Refers[m] \ {m} ELSE Refers[m]

(* verify_staging, then the search of its output for "was downloaded from": *)
(* code in no snapshot, not the model's nor an extra repository's, does not *)
(* resolve offline, and code in one that nothing has staged is copied, with *)
(* that message.                                                            *)
Verified_OwnRepo(m, staged) == Code(m) \cap {m} \subseteq staged
Verified(m, staged) == Code(m) \subseteq staged

(* A pre-load that succeeds stages every module, fetching what no snapshot  *)
(* has, for the hub is still in reach; one that fails leaves any of them.   *)
BuiltImages(b) ==
  LET m == want[b].model
  IN  {i \in Image :
         /\ i.model = m /\ i.deps = context[b] /\ i.by = b
         /\ i.staged \subseteq Code(m)
         /\ m \in Loads => i.staged = Code(m)
         /\ Verified(m, i.staged)}

----------------------------------------------------------------------------
(* cmd_bundle *)

Whole(i)   == [kind |-> "whole", image |-> i]
Part(i)    == [kind |-> "part", image |-> i]
Spoilt(k)  == [kind |-> k, image |-> None]
Underway   == {b \in Builds : at[b] \in {"written", "building", "built"}}

(* find_model ends the run when the id is not in the catalog, check_docker  *)
(* when there is no docker, a dry run and a user who does not confirm end   *)
(* it too; nothing has been written then.                                   *)
Refused(b) ==
  /\ at[b] = "begin"
  /\ at' = [at EXCEPT ![b] = "failed"]
  /\ UNCHANGED <<requirements, images, files, want, context, exit, overlapped,
                 airgap>>

(* build_model_requirements.  A model without dependencies gets a file too, *)
(* with a comment in it.                                                    *)
Requirements_OnlyIfAny(m) == IF m \in Pinned THEN m ELSE requirements
Requirements(m) == m

WriteRequirements(b) ==
  /\ at[b] = "begin"
  /\ requirements' = Requirements(want[b].model)
  /\ at' = [at EXCEPT ![b] = "written"]
  /\ overlapped' = IF Underway = {} THEN overlapped
                   ELSE overlapped \cup Underway \cup {b}
  /\ UNCHANGED <<images, files, want, context, exit, airgap>>

(* docker build reads its context; COPY fails where the file is gone.       *)
SendContext(b) ==
  /\ at[b] = "written"
  /\ IF requirements = None
     THEN /\ exit' = [exit EXCEPT ![b] = 1]
          /\ at' = [at EXCEPT ![b] = "built"]
          /\ UNCHANGED context
     ELSE /\ context' = [context EXCEPT ![b] = requirements]
          /\ at' = [at EXCEPT ![b] = "building"]
          /\ UNCHANGED exit
  /\ UNCHANGED <<requirements, images, files, want, overlapped, airgap>>

(* The stages of the Dockerfile pass and the tag is set, or one of them     *)
(* fails: pip, the hub, or the gate at the end of download_model.           *)
BuildImage(b) ==
  /\ at[b] = "building"
  /\ at' = [at EXCEPT ![b] = "built"]
  /\ \/ \E i \in BuiltImages(b) :
          /\ images' = [images EXCEPT ![i.model] = i]
          /\ exit' = [exit EXCEPT ![b] = 0]
     \/ exit' = [exit EXCEPT ![b] = 1] /\ UNCHANGED images
  /\ UNCHANGED <<requirements, files, want, context, overlapped, airgap>>

(* unlink(missing_ok=True), whoever's the file is by now.                   *)
CleanUp(b) ==
  /\ at[b] = "built"
  /\ requirements' = None
  /\ at' = [at EXCEPT ![b] = IF exit[b] = 0 THEN "tagged" ELSE "failed"]
  /\ UNCHANGED <<images, files, want, context, exit, overlapped, airgap>>

(* docker save tag | gzip > output: the shell empties the output first, and *)
(* docker looks the tag up then: a build that sets it later does not change *)
(* what is saved.                                                           *)
Saving(f) == {b \in Builds : at[b] = "saving" /\ want[b].output = f}

StartSave(b) ==
  LET f == want[b].output
  IN  /\ at[b] = "tagged"
      /\ at' = [at EXCEPT ![b] = "saving"]
      /\ files' = [files EXCEPT ![f] =
                     IF Saving(f) = {} THEN Part(images[want[b].model])
                                       ELSE Spoilt("mixed")]
      /\ UNCHANGED <<requirements, images, want, context, exit, overlapped, airgap>>

(* The shell returns what gzip returned.  Where docker save fails the run   *)
(* says "Bundle ready!" of a file with part of an image or nothing in it.   *)
Save(b) ==
  LET f == want[b].output
  IN  /\ at[b] = "saving"
      /\ \/ /\ at' = [at EXCEPT ![b] = "ready"]
            /\ \E new \in {Whole(files[f].image), Spoilt("part"), Spoilt("empty")} :
                 files' = [files EXCEPT ![f] = IF @.kind = "mixed" THEN @ ELSE new]
         \/ at' = [at EXCEPT ![b] = "failed"] /\ UNCHANGED files
      /\ UNCHANGED <<requirements, images, want, context, exit, overlapped, airgap>>

(* _sigint_handler: SystemExit wherever the run is, past every clean-up.    *)
Interrupt(b) ==
  /\ at[b] \in {"written", "building", "built", "tagged", "saving"}
  /\ at' = [at EXCEPT ![b] = "interrupted"]
  /\ UNCHANGED <<requirements, images, files, want, context, exit, overlapped,
                 airgap>>

----------------------------------------------------------------------------
(* cmd_deploy *)

(* The file is carried over; on its way it may be cut or damaged.           *)
Carry(d) ==
  /\ to[d] = "begin"
  /\ to' = [to EXCEPT ![d] = "carried"]
  /\ \E k \in {"same", "part", "garbled"} :
       got' = [got EXCEPT ![d] =
                 LET f == files[ask[d].file]
                 IN  IF k = "same" \/ f.kind \in {"none", "empty"} THEN f
                                                                  ELSE Spoilt(k)]
  /\ UNCHANGED <<workshop, ask, port, name, site, bound, box>>

(* validate_gzip reads sixteen bytes: the file may break off after them.    *)
ValidateGzip(f) == f.kind \in {"whole", "part", "mixed", "empty"}

(* find_free_port: the first it can bind, and gives up again.               *)
Free == {i \in DOMAIN Ports : bound[i] = None}
FreePort(i) == \A j \in Free : i <= j

Validate(d) ==
  /\ to[d] = "carried"
  /\ \/ /\ ValidateGzip(got[d])
        /\ \E i \in Free : FreePort(i) /\ port' = [port EXCEPT ![d] = i]
        /\ to' = [to EXCEPT ![d] = "valid"]
     \/ /\ ~ValidateGzip(got[d]) \/ Free = {}
        /\ to' = [to EXCEPT ![d] = "failed"]
        /\ UNCHANGED port
  /\ UNCHANGED <<workshop, ask, got, name, site, bound, box>>

(* docker load takes all of a tar or none of it; of an empty one it says    *)
(* nothing, and a user at the terminal is asked what to run.                *)
Load(d) ==
  /\ to[d] = "valid"
  /\ CASE got[d].kind = "whole" ->
            LET i == got[d].image
            IN  /\ site' = [site EXCEPT ![i.model] = i]
                /\ name' = [name EXCEPT ![d] = i.model]
                /\ to' = [to EXCEPT ![d] = "loaded"]
       [] got[d].kind = "empty" /\ ask[d].tty ->
            /\ \E m \in Models : name' = [name EXCEPT ![d] = m]
            /\ to' = [to EXCEPT ![d] = "loaded"]
            /\ UNCHANGED site
       [] OTHER ->
            /\ to' = [to EXCEPT ![d] = "failed"]
            /\ UNCHANGED <<site, name>>
  /\ UNCHANGED <<workshop, ask, got, port, bound, box>>

Failed_Attached(d, returncode) == ~ask[d].detach /\ returncode # 0
Failed(d, returncode) == returncode # 0

(* docker run, minutes after the port was looked at.                        *)
Run(d) ==
  /\ to[d] = "loaded"
  /\ \E returncode \in {0, 125} :
       /\ \/ /\ returncode = 0
             /\ bound[port[d]] = None /\ site[name[d]] # None
             /\ bound' = [bound EXCEPT ![port[d]] = d]
             /\ box' = [box EXCEPT ![d] = site[name[d]]]
          \/ returncode # 0 /\ UNCHANGED <<bound, box>>
       /\ to' = [to EXCEPT ![d] = IF Failed(d, returncode) THEN "failed"
                                  ELSE IF ask[d].detach THEN "started"
                                  ELSE "attached"]
  /\ UNCHANGED <<workshop, ask, got, port, name, site>>

(* A container ends when its model does not load, its driver is too old or  *)
(* someone stops it, and --rm removes it.  Without --detach the run ends    *)
(* with it; with it the run has long said that the container started.       *)
ContainerEnds(d) ==
  /\ box[d] # None
  /\ \/ to[d] = "started" /\ UNCHANGED to
     \/ /\ to[d] = "attached"
        /\ \E end \in {"ended", "failed"} : to' = [to EXCEPT ![d] = end]
  /\ bound' = [bound EXCEPT ![port[d]] = None]
  /\ box' = [box EXCEPT ![d] = None]
  /\ UNCHANGED <<workshop, ask, got, port, name, site>>

(* Another program takes a port or gives it back.                           *)
OtherProgram(p) ==
  /\ \/ bound[p] = None /\ bound' = [bound EXCEPT ![p] = "other"]
     \/ bound[p] = "other" /\ bound' = [bound EXCEPT ![p] = None]
  /\ UNCHANGED <<workshop, ask, to, got, port, name, site, box>>

----------------------------------------------------------------------------
Init ==
  /\ requirements = None
  /\ images = [m \in Models |-> None]
  /\ files = [f \in Outputs |-> Spoilt("none")]
  /\ want \in [Builds -> [model : Models, output : Outputs]]
  /\ at = [b \in Builds |-> "begin"]
  /\ context = [b \in Builds |-> None]
  /\ exit = [b \in Builds |-> 0]
  /\ overlapped = {}
  /\ ask \in [Deploys -> [file : Outputs, detach : BOOLEAN, tty : BOOLEAN]]
  /\ to = [d \in Deploys |-> "begin"]
  /\ got = [d \in Deploys |-> Spoilt("none")]
  /\ port = [d \in Deploys |-> None] /\ name = [d \in Deploys |-> None]
  /\ site = [m \in Models |-> None]
  /\ bound = [p \in DOMAIN Ports |-> None]
  /\ box = [d \in Deploys |-> None]

Next ==
  \/ \E b \in Builds :
       \/ Refused(b) \/ WriteRequirements(b) \/ SendContext(b) \/ BuildImage(b)
       \/ CleanUp(b) \/ StartSave(b) \/ Save(b) \/ Interrupt(b)
  \/ \E d \in Deploys :
       Carry(d) \/ Validate(d) \/ Load(d) \/ Run(d) \/ ContainerEnds(d)
  \/ \E p \in DOMAIN Ports : OtherProgram(p)

Spec == Init /\ [][Next]_vars

----------------------------------------------------------------------------
(* TypeOK: the shape of the state.                                          *)
Bundles == [kind : {"whole"}, image : Image]
           \cup [kind : {"part"}, image : Image]
           \cup [kind : {"none", "part", "mixed", "empty", "garbled"}, image : {None}]

TypeOK ==
  /\ requirements \in Models \cup {None}
  /\ images \in [Models -> Image \cup {None}]
  /\ files \in [Outputs -> Bundles]
  /\ want \in [Builds -> [model : Models, output : Outputs]]
  /\ at \in [Builds -> {"begin", "written", "building", "built", "tagged",
                        "saving", "ready", "failed", "interrupted"}]
  /\ context \in [Builds -> Models \cup {None}]
  /\ exit \in [Builds -> {0, 1}]
  /\ overlapped \subseteq Builds
  /\ ask \in [Deploys -> [file : Outputs, detach : BOOLEAN, tty : BOOLEAN]]
  /\ to \in [Deploys -> {"begin", "carried", "valid", "loaded", "started",
                         "attached", "ended", "failed"}]
  /\ got \in [Deploys -> Bundles]
  /\ port \in [Deploys -> DOMAIN Ports \cup {None}]
  /\ name \in [Deploys -> Models \cup {None}]
  /\ site \in [Models -> Image \cup {None}]
  /\ bound \in [DOMAIN Ports -> Deploys \cup {"other", None}]
  /\ box \in [Deploys -> Image \cup {None}]

(* OwnDependencies: an image has its own model's dependencies installed     *)
(* unless another bundle was building beside it: neither a build that       *)
(* failed nor one that was interrupted and left its file behind leaks into  *)
(* the next.                                                                *)
OwnDependencies ==
  \A m \in Models : images[m] # None =>
    images[m].deps = m \/ images[m].by \in overlapped

(* RunsOffline: whatever the pre-load did, and whichever repositories the   *)
(* catalog forgot, the image in a bundle, the image docker load took from   *)
(* it and the image a container runs have all the remote code there is of   *)
(* their model staged.                                                      *)
Complete(i) == i # None => Code(i.model) \subseteq i.staged

RunsOffline ==
  /\ \A f \in Outputs : Complete(files[f].image)
  /\ \A m \in Models : Complete(site[m])
  /\ \A d \in Deploys : Complete(box[d])

(* StartedRan: a deploy says it has started a container only where one has  *)
(* come up, on the port it names and with the image it named, although the  *)
(* port may have been taken after it was looked at.  That image came from   *)
(* its file, which was whole when it arrived, or an empty file sent the     *)
(* user to name one: a file cut short or written by two bundles never       *)
(* starts anything.  How long the container lasts is another matter.        *)
Serves(d) ==
  /\ bound[port[d]] = d
  /\ box[d] # None /\ box[d].model = name[d]
  /\ \/ got[d].kind = "whole" /\ box[d].model = got[d].image.model
     \/ got[d].kind = "empty" /\ ask[d].tty

StartedRan ==
  [][\A d \in Deploys : to[d] # "started" /\ to'[d] = "started" => Serves(d)']_vars
=============================================================================
