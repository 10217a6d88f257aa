----------------------------- MODULE MCConfigSync -----------------------------
\* Small instances of ConfigSync for TLC.
EXTENDS ConfigSync, TLC

\* Contents and names are only ever compared.
Symmetry == Permutations(Versions) \cup Permutations(Domains)
              \cup Permutations(Profiles) \cup Permutations(DocNames)

\* A failed up leaves a record without hashes, so it may fail anywhere but
\* between a DNS change and its recording; an update only where the recorded
\* hashes stay true of the box, before the activation or after the recording.
\* It ignores a failed delete of the old DNS record.
UpFailures ==
  {"up"} \X {"provision", "persist", "waitSsh", "upload", "uploadFiles", "rebuild",
             "rebuildTimeout", "recordConfig", "health", "hashProfiles",
             "syncProfiles", "recordProfiles", "cron"}
UpdateFailures ==
  {"update"} \X {"reconcileNetwork", "upload", "uploadFiles", "rebuild", "health",
                 "hashProfiles", "dnsDelete"}
BuildFailures == UpFailures \cup UpdateFailures

\* With upgrades beside, an update may not fail between an upload and the
\* rebuild.  Also a cron command that leaves the scheduler half edited.
SideFailures ==
  UpFailures \cup {<<"upgrade", "flakeUpdate">>, <<"upgrade", "rebuildTimeout">>}
    \cup ({"update"} \X {"reconcileNetwork", "health", "hashProfiles", "cron"})
===============================================================================
