--------------------------- MODULE PinnedArtifact ---------------------------
(***************************************************************************)
(* An artifact fetched from a URL with a SHA-256 pin:                      *)
(* src/src/ide_scanner/artifact_input.py (acquire_https_vsix and           *)
(* acquire_https_archive_member) and scan_remote_artifact of scanner.py.   *)
(*                                                                         *)
(* Bytes are known by what they are: the artifact itself, the artifact in  *)
(* a layer of gzip, an archive that holds it or something else, or bytes   *)
(* nobody asked for.  A pin is the name of the bytes it is a digest of.    *)
(***************************************************************************)
EXTENDS Naturals, FiniteSets

Plain == {"artifact", "wrapped", "other"}
Archives == [member : Plain \cup {"absent", "directory", "oversized"}]
Remote == Plain \cup {"archive"}

VARIABLES
    pin,            \* the call: plain or member, the pins, what the URL serves
    pinStep,
    download,       \* the file of acquire_https_vsix: {}, or what it holds
    whole,          \* all that the URL serves is in it
    folder,         \* the temporary directory of the archive
    member,         \* the file of the archive's member
    pinReport,      \* {} or the report of scan_remote_artifact
    pinCause

pinVars == <<pin, pinStep, download, whole, folder, member, pinReport, pinCause>>

Pins == [kind : {"plain", "member"}, valid : BOOLEAN, digest : Remote, inner : Plain,
         serves : Remote, held : Plain \cup {"absent", "directory", "oversized"}]

PinInit ==
    /\ pin \in Pins
    /\ pin.kind = "plain" => pin.inner = "other" /\ pin.held = "absent"
    /\ pinStep = "check" /\ download = {} /\ whole = FALSE /\ folder = FALSE
    /\ member = {} /\ pinReport = {} /\ pinCause = ""

\* ArtifactInputError: every file of the call is removed, and the directory.
PinFails(why, kept) ==
    /\ pinStep' = "failed" /\ pinCause' = why
    /\ download' = (IF pin.kind = "member" THEN {} ELSE kept)
    /\ folder' = FALSE /\ member' = {}
    /\ UNCHANGED <<pin, whole, pinReport>>

\* A pin that is no digest, a URL that is not public HTTPS or a member whose
\* path leaves the archive.
PinRefused == pinStep = "check" /\ PinFails("input", {})

PinOpens ==
    /\ pinStep = "check" /\ pin.valid
    /\ pinStep' = "read" /\ folder' = (pin.kind = "member")
    /\ download' = {"part"} /\ whole' = FALSE
    /\ UNCHANGED <<pin, member, pinReport, pinCause>>

\* Bytes are hashed as they are written; the response may end early.
PinReads ==
    /\ pinStep = "read"
    /\ pinStep' = "hash"
    /\ \/ download' = {pin.serves} /\ whole' = TRUE
       \/ UNCHANGED <<download, whole>>
    /\ UNCHANGED <<pin, folder, member, pinReport, pinCause>>

\* The host is not public after a redirect, the connection fails, the limit is
\* passed or there is nothing.
PinBreaks == pinStep = "read" /\ PinFails("download", {})

\* http.client.IncompleteRead: only the directory of an archive is removed.
PinProtocolError == pinStep = "read" /\ PinFails("protocol", download)

\* Variant: an answer that ended early is not compared.
PinMatchesShort(d) == whole => d = {pin.digest}
PinMatches(d) == d = {pin.digest}

PinDiffers == pinStep = "hash" /\ ~PinMatches(download) /\ PinFails("digest", {})

PinHolds ==
    /\ pinStep = "hash" /\ PinMatches(download)
    /\ pinStep' = (IF pin.kind = "member" THEN "member" ELSE "scan")
    /\ UNCHANGED <<pin, download, whole, folder, member, pinReport, pinCause>>

\* The member of the archive, its own pin, and a file of its own.
MemberFails ==
    /\ pinStep = "member"
    /\ \/ download # {"archive"}
       \/ pin.held \in {"absent", "directory", "oversized"}
       \/ pin.held # pin.inner
    /\ PinFails("member", {})

MemberStoreFails ==
    /\ pinStep = "member" /\ download = {"archive"} /\ pin.held = pin.inner
    /\ PinFails("storage", {})

MemberStored ==
    /\ pinStep = "member" /\ download = {"archive"} /\ pin.held = pin.inner
    /\ member' = {pin.held} /\ download' = {} /\ folder' = FALSE
    /\ pinStep' = "returned"
    /\ UNCHANGED <<pin, whole, pinReport, pinCause>>

\* scan_vsix works on a copy without its gzip layer.
Hashed(bytes) == IF bytes = "wrapped" THEN "artifact" ELSE bytes

\* Variant: the download was compared with the pin.
SaysVerifiedOnce(bytes) == TRUE
SaysVerified(bytes) == Hashed(bytes) = pin.digest

PinScanned ==
    /\ pinStep = "scan"
    /\ \E bytes \in download :
         pinReport' = {[hash |-> Hashed(bytes), verified |-> SaysVerified(bytes)]}
    /\ pinStep' = "returned" /\ download' = {}
    /\ UNCHANGED <<pin, whole, folder, member, pinCause>>

PinScanFails == pinStep = "scan" /\ PinFails("scan", {})

PinNext ==
    \/ PinRefused \/ PinOpens \/ PinReads \/ PinBreaks \/ PinProtocolError \/ PinDiffers \/ PinHolds
    \/ MemberFails \/ MemberStoreFails \/ MemberStored \/ PinScanned \/ PinScanFails

PinSpec == PinInit /\ [][PinNext]_pinVars

-----------------------------------------------------------------------------
(* Properties.                                                              *)

PinTypeOK ==
    /\ pin \in Pins /\ whole \in BOOLEAN /\ folder \in BOOLEAN
    /\ pinStep \in {"check", "read", "hash", "member", "scan", "returned", "failed"}
    /\ download \subseteq Remote \cup {"part"} /\ member \subseteq Plain

\* What is handed out or scanned has the pin it was asked with: the bytes of a
\* member those of its own pin, out of an archive that had its pin, and a
\* report that says sha256_verified was made of the pinned bytes themselves
\* (artifact_input.py:57-62, 101-102, scanner.py:1564-1569).
PinIsOfTheResult ==
    /\ pinStep = "scan" => whole /\ download = {pin.digest}
    /\ \A m \in member : m = pin.inner /\ pin.serves = "archive" /\ pin.digest = "archive" /\ whole
    /\ \A r \in pinReport : r.verified => r.hash = pin.digest

\* No file and no directory of a call is left when it ends, but for the partial
\* file of an error that no handler catches (artifact_input.py:63-72, 92-110).
PinLeavesNothing ==
    pinStep \in {"returned", "failed"} => ~folder /\ (download # {} => pinCause = "protocol")
=============================================================================
