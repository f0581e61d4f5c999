--------------------------- MODULE ManifestCheck ---------------------------
(***************************************************************************)
(* ValidateManifest (internal/importer/manifest.go): the files a manifest  *)
(* names are resolved, opened and hashed one after the other, while others *)
(* may write to them.  A name that is empty, absolute, missing, outside of *)
(* the base directory or not a regular file resolves to nothing.           *)
(***************************************************************************)
EXTENDS Naturals, Sequences, Functions

CONSTANTS
  Names,       \* what a manifest may list
  Files,       \* the regular files below the base directory
  Resolves,    \* the file of each name, through its links, or NoFile
  NoFile,
  MaxFiles,    \* DefaultMaxManifestFiles
  ManifestBytes,    \* DefaultMaxManifestBytes
  MaxLength    \* bound: the length of a list, and of a file

ASSUME ManifestAssumption ==
  /\ Resolves \in [Names -> Files \cup {NoFile}]
  /\ MaxFiles \in Nat \ {0} /\ ManifestBytes \in Nat \ {0} /\ MaxLength \in Nat

VARIABLES
  size,      \* of each file, now
  names,     \* still to be examined
  files,     \* result.Files
  totalBytes,     \* result.TotalBytes
  copied,    \* history: the bytes read and hashed
  verdict    \* idle, checking, accepted, refused, or oversize

manifestVars == <<size, names, files, totalBytes, copied, verdict>>

Lists == UNION {[1..n -> Names] : n \in 0..MaxLength}

ManifestInit ==
  /\ size \in [Files -> 0..MaxLength]
  /\ names = <<>>
  /\ files = <<>>
  /\ totalBytes = 0
  /\ copied = 0
  /\ verdict = "idle"

\* The other programs that use the files.
Writes(f) ==
  /\ \E n \in 0..MaxLength : size' = [size EXCEPT ![f] = n]
  /\ UNCHANGED <<names, files, totalBytes, copied, verdict>>

Submits(list) ==
  /\ verdict \notin {"checking"}
  /\ names' = list
  /\ files' = <<>>
  /\ totalBytes' = 0
  /\ copied' = 0
  /\ verdict' = IF Len(list) \in 1..MaxFiles THEN "checking" ELSE "refused"
  /\ UNCHANGED size

File == Resolves[Head(names)]
Remaining == ManifestBytes - totalBytes

\* The name is not one of a file, or of a file that was listed before.
RefusesName ==
  /\ verdict = "checking" /\ names # <<>>
  /\ File \in {NoFile} \cup Range(files)
  /\ verdict' = "refused"
  /\ UNCHANGED <<size, names, files, totalBytes, copied>>

\* Wrong: the file is copied to its end.
BytesOfWrong(f) == size[f]

\* io.Copy of a LimitReader, which gives one byte more than may remain.
BytesOf(f) == IF size[f] <= Remaining THEN size[f] ELSE Remaining + 1

\* Nothing may remain even for an empty file.
RefusesSize ==
  /\ verdict = "checking" /\ names # <<>>
  /\ File \notin {NoFile} \cup Range(files)
  /\ Remaining <= 0 \/ BytesOf(File) > Remaining
  /\ verdict' = "oversize"
  /\ copied' = IF Remaining <= 0 THEN copied ELSE copied + BytesOf(File)
  /\ UNCHANGED <<size, names, files, totalBytes>>

ReadsFile ==
  /\ verdict = "checking" /\ names # <<>>
  /\ File \notin {NoFile} \cup Range(files)
  /\ Remaining > 0 /\ BytesOf(File) <= Remaining
  /\ totalBytes' = totalBytes + BytesOf(File)
  /\ copied' = copied + BytesOf(File)
  /\ files' = Append(files, File)
  /\ names' = Tail(names)
  /\ UNCHANGED <<size, verdict>>

\* The hash of what was read is the manifest's checksum, if it gives one.
Decides ==
  /\ verdict = "checking" /\ names = <<>>
  /\ verdict' \in {"accepted", "refused"}
  /\ UNCHANGED <<size, names, files, totalBytes, copied>>

ManifestNext ==
  \/ \E f \in Files : Writes(f)
  \/ \E list \in Lists : Submits(list)
  \/ RefusesName \/ RefusesSize \/ ReadsFile \/ Decides

ManifestSpec == ManifestInit /\ [][ManifestNext]_manifestVars
-----------------------------------------------------------------------------
\* However the files grow while they are read, one byte beyond the limit is the
\* most that is ever hashed; what an accepted manifest reports is what was
\* hashed, of different files; and a manifest is too large only if more than
\* the limit was there, or a further name when the limit was reached exactly.
ManifestIsBounded ==
  /\ copied <= ManifestBytes + 1
  /\ verdict = "accepted" =>
       /\ totalBytes = copied /\ totalBytes <= ManifestBytes
       /\ Len(files) \in 1..MaxFiles /\ IsInjective(files)
  /\ verdict = "oversize" => copied > ManifestBytes \/ (copied = ManifestBytes /\ names # <<>>)
=============================================================================
