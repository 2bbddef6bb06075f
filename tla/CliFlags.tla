------------------------------ MODULE CliFlags -------------------------------
(***************************************************************************)
(* What the commands of the CLI make of their flags: src/cli/parser and    *)
(* the names and targets of src/cli/domain.  A value that was not given is *)
(* None; texts that are put together from others are given as functions.   *)
(***************************************************************************)
EXTENDS ControlClient, Sequences

CONSTANTS
  Bases,          \* values of --name for deploy, trimmed and in lower case
  Generated,      \* the Bases that GenerateContainerName may return
  Suffixes,       \* values of --domain
  DefaultSuffix,  \* "edge.local"
  UrlSafe,        \* the Bases and Suffixes made of labels of 1..63 letters, digits
                  \* and inner hyphens
  InstanceName,   \* InstanceName[b, i]: the container "<b>-<i>", and "<b>" for i = 0
  LatestTag,      \* LatestTag[b]: the image "<b>:latest"
  Hostname,       \* Hostname[c, s]: the SNI name "<c>.<s>"
  Lower           \* Lower[c]: the container name c in lower case

ASSUME FlagsAssumption ==
  /\ Generated \subseteq Bases \cap UrlSafe
  /\ DefaultSuffix \in Suffixes
  /\ \A b \in Bases : LatestTag[b] \in Tags
  /\ Lower \in [Containers -> Containers]
  /\ Hostname \in [Containers \X Suffixes -> Names]
  /\ None \notin Bases \cup Suffixes \cup Tags

\* "<c>.<s>" has a dot in it.
ASSUME HostnameAssumption ==
  \A c \in Containers, s \in Suffixes : Norm[Hostname[c, s]] # Blank

\* validateDeployArgs, with isValidUrlSafeName and isValidDomainSuffix.
ValidDeployArgs(a) ==
  /\ a.context \/ a.image # None
  /\ a.replicas >= 1
  /\ a.name # None => a.name \in UrlSafe
  /\ a.suffix # None => a.suffix \in UrlSafe

\* ParseDeregisterFlags.
ValidEvictionArgs(a) == a.name # None \/ a.ip # None

BaseNames(a) == IF a.name = None THEN Generated ELSE {a.name}

\* One replica has the base name itself, several are numbered from 1.
InstanceNames(a, base) ==
  IF a.replicas = 1 THEN <<InstanceName[base, 0]>>
                    ELSE [i \in 1..a.replicas |-> InstanceName[base, i]]

ImageTag(a, base) == IF a.image # None THEN a.image ELSE LatestTag[base]

\* NewUpstreamTarget: no text stands for "/health".
TargetName(c, a)  == Hostname[c, IF a.suffix = None THEN DefaultSuffix ELSE a.suffix]
TargetEndpoint(a) == IF a.endpoint = "absent" THEN "rooted" ELSE a.endpoint

\* The name of a discovered container.
AppName(c) == Hostname[Lower[c], DefaultSuffix]
==============================================================================
