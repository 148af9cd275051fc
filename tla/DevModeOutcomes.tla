--------------------------- MODULE DevModeOutcomes ---------------------------
(***************************************************************************)
(* What the dev-mode scripts may leave behind when nothing else touches      *)
(* LabVIEW.ini: the exit status and the checkout the file names afterwards.  *)
(* SdPplLvcli builds on these outcomes; DevMode, which follows the scripts   *)
(* step by step, shows that they cover what the scripts do.                  *)
(***************************************************************************)

\* A forced bind: success is reported after reading the token back; a failure
\* leaves the old token, none (cleared, then Set_Development_Mode failed), or the
\* target's (failed after AddTokenToLabVIEW, and the revert that the script
\* attempts did not restore).
BindOutcomes(target, none, found) ==
    {[status |-> "success", token |-> target]}
    \cup [status : {"fail"}, token : {found, none, target}]

\* A revert: restores only when the token names the target; the restore is
\* skipped with exit zero when the CLI cannot be resolved or g-cli cannot connect.
\* The close that follows may fail after the token is gone.
UnbindOutcomes(target, none, found) ==
    [status : {"success", "fail"},
     token : {found} \cup (IF found = target THEN {none} ELSE {})]
=============================================================================
