------------------------------ MODULE ImageCache ------------------------------
(***************************************************************************)
(* ContainerSpec.initialize (apptainer_cmd_builder/containers.py): how a job *)
(* script finds the image of its next container.  Jobs on one file system   *)
(* share the images in cachedir; a proxy serves the built image and its md5, *)
(* which stand for its version here.  One image is modelled.  Every line of *)
(* the shell that reads or writes shared files is a step of its own.        *)
(***************************************************************************)
EXTENDS Naturals

CONSTANTS
    Jobs,         \* running job scripts
    NoImage,      \* no file, no answer of the proxy
    MaxVersion    \* bound: versions the proxy has served

ASSUME CacheAssumption == MaxVersion \in Nat \ {0}

VARIABLES
    remote,       \* the version the proxy serves
    cached,       \* the file in cachedir
    select        \* what each script does to find an image

cacheVars == <<remote, cached, select>>

Versions == 1..MaxVersion

\* What a script chooses: the shared file, or an image that does not depend on it.
Images == {"none", "cached", "uncached"}

\* Where the selection is, the md5 the proxy gave, the downloaded file, and the
\* image that was chosen.
Selection ==
    [at : {"ask", "look", "download", "verify", "replace", "chosen"},
     asked : Versions \cup {NoImage}, tmp : Versions \cup {NoImage},
     image : Images]

CacheTypeOK ==
    /\ remote \in Versions
    /\ cached \in Versions \cup {NoImage}
    /\ select \in [Jobs -> Selection]

Begin == [at |-> "ask", asked |-> NoImage, tmp |-> NoImage, image |-> "none"]

CacheInit ==
    /\ remote = 1
    /\ cached \in {NoImage, 1}
    /\ select = [j \in Jobs |-> Begin]

\* REMOTE_IMAGE_MD5, or nothing when the proxy does not answer.
AskMd5(j) ==
    /\ select[j].at = "ask"
    /\ \E version \in {remote, NoImage} :
            select' = [select EXCEPT ![j] = [Begin EXCEPT !.at = "look", !.asked = version]]
    /\ UNCHANGED <<remote, cached>>

Choose(j, image) ==
    select' = [select EXCEPT ![j] = [Begin EXCEPT !.at = "chosen", !.image = image]]

\* A read-only image directory or cvmfs of the node has the image.
UseStatic(j) ==
    /\ select[j].at = "look"
    /\ Choose(j, "uncached")
    /\ UNCHANGED <<remote, cached>>

Current(j) == cached # NoImage /\ cached = select[j].asked

UseCached(j) ==
    /\ select[j].at = "look" /\ Current(j)
    /\ Choose(j, "cached")
    /\ UNCHANGED <<remote, cached>>

LookRemoves(j) ==
    /\ select[j].at = "look" /\ ~Current(j)
    /\ select' = [select EXCEPT ![j].at = "download"]
    /\ cached' = NoImage /\ UNCHANGED remote

\* touch of a stale image, which changes no check of this script.
LookFails(j) ==
    /\ select[j].at = "look" /\ ~Current(j)
    /\ select' = [select EXCEPT ![j].at = "download"]
    /\ UNCHANGED <<remote, cached>>

\* curl writes to a temporary name.
Download(j) ==
    /\ select[j].at = "download"
    /\ \E version \in {remote, NoImage} :
            select' = [select EXCEPT ![j].at = "verify", ![j].tmp = version]
    /\ UNCHANGED <<remote, cached>>

Verified(j) == select[j].tmp # NoImage /\ select[j].tmp = select[j].asked

\* The first rename moves the old image away, if there is one.
MoveAway(j) ==
    /\ select[j].at = "verify" /\ Verified(j)
    /\ cached' = NoImage
    /\ select' = [select EXCEPT ![j].at = "replace"]
    /\ UNCHANGED remote

\* The second brings the new one.
MoveIn(j) ==
    /\ select[j].at = "replace"
    /\ cached' = select[j].tmp
    /\ Choose(j, "cached")
    /\ UNCHANGED remote

\* A failed or corrupt download: apptainer builds the image itself.
UseBuilt(j) ==
    /\ select[j].at = "verify" /\ ~Verified(j)
    /\ Choose(j, "uncached")
    /\ UNCHANGED <<remote, cached>>

SelectStep(j) ==
    \/ AskMd5(j) \/ UseStatic(j) \/ UseCached(j) \/ LookFails(j)
    \/ Download(j) \/ MoveAway(j) \/ MoveIn(j) \/ UseBuilt(j)

\* The image is built again at its source.
RemoteChanges ==
    /\ remote < MaxVersion /\ remote' = remote + 1
    /\ UNCHANGED <<cached, select>>

\* apptainer opens the file when the container starts.
Opens(image) == image = "cached" => cached # NoImage
==============================================================================
