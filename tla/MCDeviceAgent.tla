--------------------------- MODULE MCDeviceAgent ---------------------------
(***************************************************************************)
(* Small instances of DeviceAgent, and what the repository's docs and      *)
(* comments say of a device that its code does not always do.              *)
(***************************************************************************)
EXTENDS DeviceAgent

\* An apply of settings alone, and one that also changes packages and files.
SettingsAlone == {}
Everything == {"packages", "files"}
MCWorks == {SettingsAlone, Everything}
MCWholeWork == {Everything}

\* docs/how-it-works.md:68: a restart inside the window brings back config,
\* files and boot links.  A power cut between the two renames of a swap
\* leaves no /etc/config for the boot script's own first rename.
RestartRewinds ==
    up = "up" /\ "restarted on whole" \in past /\ past \cap {"config not copied", "files not back", "links not copied"} = {} =>
        flash.config = "old" /\ flash.files = "old" /\ flash.links = "old"

\* docs/how-it-works.md:62-66: a rollback rewinds /etc/config whole, managed
\* files and packages.  The watchdog says "restored" whether its copies and
\* apk's two commands succeeded or not.
RolledBackRewinds ==
    client.told = "rolled back" /\ "overlapped" \notin past =>
        flash.config = "old" /\ flash.files = "old" /\ flash.packages = "old"

\* script.ts:48-49, of the snapshot in RAM: a partial one swapped in whole
\* would leave less than either config, so the arm fails.  The copy made for
\* the boot script is written in place, and the boot script asks only whether
\* its directory is there.
NoPartSwappedIn ==
    up = "up" /\ "restarted on part" \in past => flash.config # "part"
=============================================================================
