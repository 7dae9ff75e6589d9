------------------------------- MODULE Upload -------------------------------
(***************************************************************************)
(* The file of a profile-picture request:                                  *)
(*   internal/transport/http/uploader.go      ParsedFile, ValidateFile     *)
(*   internal/transport/http/user_handler.go  changeProfilePicture         *)
(*   internal/user/service.go                 ChangeProfilePicture         *)
(*   internal/infrastructure/r2/r2.go         Put                          *)
(* Validation and upload read the same lazily opened handle, one after the *)
(* other; the deferred Close ends its life.  HttpApi runs these steps as   *)
(* the handler of the endpoint; what the transaction does to rows and      *)
(* objects is ProfilePicture's.  A MIME type stands for its base type in   *)
(* lower case, an extension for its lower case.                            *)
(***************************************************************************)
EXTENDS Naturals, Sequences

CONSTANTS
    Files,      \* files a form may hold; sizes in blocks of the 512 bytes sniffed
    MaxSize,    \* ValidationRules.MaxSize, scaled
    MaxAttempts \* attempts of PutObject

PNG == "image/png"
ZIP == "application/zip"
Text == "text/plain"
Binary == "application/octet-stream"
Unset == "unset" \* an empty type or extension
MIMEs == {PNG, ZIP, Text, Binary}

ASSUME UploadAssumption ==
    /\ Files \subseteq [size : Nat, content : MIMEs, claimed : MIMEs \cup {Unset},
                        ext : {".png", ".docx", ".txt"}]
    /\ MaxSize \in Nat \ {0} /\ MaxAttempts \in Nat \ {0}

VARIABLES
    step,    \* where changeProfilePicture is, "none" outside
    file,    \* the file of the form
    handle,  \* ParsedFile.file: <<>> for nil, or <<offset>>
    opened,  \* file handles that are open
    start,   \* the offset to go back to
    sniffed, \* the type detectMIME found
    attempt, \* of PutObject
    object,  \* history: the object Put stored, as [from, to, type, ext]
    failure  \* classes of the error to return, {} for nil

upload == <<step, file, handle, opened, start, sniffed, attempt, object, failure>>

None == [size |-> 0, content |-> Binary, claimed |-> Unset, ext |-> Unset]
NoObject == [from |-> 0, to |-> 0, type |-> Unset, ext |-> Unset]

UploadInit ==
    /\ step = "none" /\ file = None /\ handle = <<>> /\ opened = 0
    /\ start = 0 /\ sniffed = Unset /\ attempt = 0 /\ object = NoObject /\ failure = {}

Fail(classes) == step' = "close" /\ failure' = classes

-----------------------------------------------------------------------------
(* ParsedFile *)

\* Read and Seek open the file first when it is not open.
Offset == IF handle = <<>> THEN 0 ELSE Head(handle)
At(offset) ==
    /\ handle' = <<offset>>
    /\ opened' = IF handle = <<>> THEN opened + 1 ELSE opened

\* Opening fails, or the operation on the file that is open then.
IOError ==
    /\ UNCHANGED <<handle, opened>> \/ At(Offset)
    /\ Fail({"unknown"})

\* Seeded fault: only a file that was read to the end is closed.
CloseAtEnd ==
    /\ step' = "none" /\ handle' = <<>>
    /\ opened' = IF handle = <<file.size>> THEN opened - 1 ELSE opened
    /\ file' = None /\ start' = 0 /\ sniffed' = Unset /\ attempt' = 0
    /\ object' = NoObject /\ failure' = {}

\* The deferred Close; the request forgets the file.
Close ==
    /\ step' = "none" /\ handle' = <<>>
    /\ opened' = IF handle = <<>> THEN opened ELSE opened - 1
    /\ file' = None /\ start' = 0 /\ sniffed' = Unset /\ attempt' = 0
    /\ object' = NoObject /\ failure' = {}

-----------------------------------------------------------------------------
(* ValidateFile *)

ImageMIMEs == {"image/jpeg", PNG, "image/webp"}
isMIMEAllowed(mime) == mime \in ImageMIMEs

officeExtensions == [e \in {".docx"} |-> {ZIP, Binary}]
isOfficeDocument(ext, mime) == ext \in DOMAIN officeExtensions /\ mime \in officeExtensions[ext]

\* Go's mime package (not part of the repository); a type without extensions
\* is not verified.
ExtensionsByType(mime) == CASE mime = PNG -> {".png"} [] mime = Text -> {".txt"} [] OTHER -> {}
verifyExtensionMatchesMIME(ext, mime) ==
    ExtensionsByType(mime) # {} => ext \in ExtensionsByType(mime)

\* The form's file is there (FormFile fails otherwise); its size is looked at
\* before the file is opened.
ReceiveFile(f) ==
    /\ step = "none"
    /\ file' = f
    /\ IF f.size > MaxSize THEN Fail({"max_size"}) ELSE step' = "tell" /\ UNCHANGED failure
    /\ UNCHANGED <<handle, opened, start, sniffed, attempt, object>>

\* detectMIME: Seek(0, io.SeekCurrent), Read, Seek(originalOffset, io.SeekStart).
Tell ==
    /\ step = "tell"
    /\ \/ /\ At(Offset) /\ start' = Offset
          /\ step' = "sniff" /\ UNCHANGED failure
       \/ IOError /\ UNCHANGED start
    /\ UNCHANGED <<file, sniffed, attempt, object>>

Sniff ==
    /\ step = "sniff"
    /\ \/ /\ At(IF Offset < file.size THEN Offset + 1 ELSE Offset)
          /\ sniffed' = IF Offset < file.size THEN file.content ELSE Binary
          /\ step' = "reset" /\ UNCHANGED failure
       \/ IOError /\ UNCHANGED sniffed
    /\ UNCHANGED <<file, start, attempt, object>>

\* Seeded fault: the file stays where the sniffing left it.
ResetNot ==
    /\ step = "reset"
    /\ step' = "verdict"
    /\ UNCHANGED <<file, handle, opened, start, sniffed, attempt, object, failure>>

Reset ==
    /\ step = "reset"
    /\ \/ At(start) /\ step' = "verdict" /\ UNCHANGED failure
       \/ IOError
    /\ UNCHANGED <<file, start, sniffed, attempt, object>>

Verdict ==
    IF isOfficeDocument(file.ext, sniffed)
    THEN IF isMIMEAllowed(file.claimed) \/ isMIMEAllowed(sniffed) THEN {} ELSE {"mime_types"}
    ELSE IF file.claimed # Unset /\ file.claimed # sniffed THEN {"invalid"}
    ELSE IF ~isMIMEAllowed(sniffed) THEN {"mime_types"}
    ELSE IF ~verifyExtensionMatchesMIME(file.ext, sniffed) THEN {"unknown"}
    ELSE {}

Validate ==
    /\ step = "verdict"
    /\ IF Verdict = {} THEN step' = "service" /\ UNCHANGED failure ELSE Fail(Verdict)
    /\ UNCHANGED <<file, handle, opened, start, sniffed, attempt, object>>

-----------------------------------------------------------------------------
(* The service *)

\* check is RequireSelfOr's error; then SetName, which keeps the extension, and
\* Put, whose client notes where the body starts.
Authorize(check) ==
    /\ step = "service"
    /\ IF check = {}
       THEN step' = "put" /\ start' = Offset /\ attempt' = 1 /\ UNCHANGED failure
       ELSE Fail(check) /\ UNCHANGED <<start, attempt>>
    /\ UNCHANGED <<file, handle, opened, sniffed, object>>

\* PutObject (not part of the repository): the body from where it is to its
\* end.  An attempt that fails may have read some of it; the next one goes back.
Put ==
    /\ step = "put"
    /\ \/ /\ At(file.size) /\ step' = "save"
          /\ object' = [from |-> Offset, to |-> file.size, type |-> file.claimed, ext |-> file.ext]
          /\ UNCHANGED failure
       \/ /\ \E p \in Offset..file.size : At(p)
          /\ \/ attempt < MaxAttempts /\ step' = "rewind" /\ UNCHANGED failure
             \/ \E e \in {"unknown", "deadline", "canceled"} : Fail({e})
          /\ UNCHANGED object
    /\ UNCHANGED <<file, start, sniffed, attempt>>

Rewind ==
    /\ step = "rewind"
    /\ \/ At(start) /\ step' = "put" /\ attempt' = attempt + 1 /\ UNCHANGED failure
       \/ IOError /\ UNCHANGED attempt
    /\ UNCHANGED <<file, start, sniffed, object>>

\* The transaction, and the end of the handler: with an error, or without.
Finish(classes) ==
    /\ step = "save"
    /\ Fail(classes)
    /\ UNCHANGED <<file, handle, opened, start, sniffed, attempt, object>>

\* A panic runs the deferred Close too.
PanicIn ==
    /\ step \notin {"none", "close"}
    /\ Fail({"panic"})
    /\ UNCHANGED <<file, handle, opened, start, sniffed, attempt, object>>

UploadStep == Tell \/ Sniff \/ Reset \/ Validate \/ Put \/ Rewind \/ PanicIn

-----------------------------------------------------------------------------
(* Properties *)

\* The object stored is the whole file, although validation read the handle
\* before and a failed attempt may have (detectMIME, Put).
WholeUpload == object # NoObject => object.from = 0 /\ object.to = file.size

\* README, PUT profile picture: "Multipart image upload (field `image`, <= 2 MB,
\* jpeg/png/webp)".  What ValidateFile lets through is stored, Office documents
\* claimed to be images included.
OnlyImages == object # NoObject => file.size <= MaxSize /\ file.content \in ImageMIMEs

\* What is stored is no larger than allowed and is what the request claims, an
\* image whose extension says the same, unless ValidateFile took it for an Office
\* document: then only the claim is an image.
StoredAsClaimed ==
    object # NoObject =>
        /\ file.size <= MaxSize
        /\ \/ /\ file.content \in ImageMIMEs /\ object.ext \in ExtensionsByType(file.content)
              /\ object.type \in {Unset, file.content}
           \/ isOfficeDocument(file.ext, sniffed) /\ object.type \in ImageMIMEs

\* However the request ends, no handle stays open and never are there two
\* (ParsedFile.Open, Close).
HandlesClosed == opened = Len(handle) /\ (step = "none" => opened = 0)
=============================================================================
