------------------------------ MODULE FileReading ------------------------------
(***************************************************************************)
(* readFile and readImageFile: a file is validated, read by a FileReader   *)
(* that the signal of the caller may abort, and, as an image, decoded.     *)
(***************************************************************************)
EXTENDS Integers

CONSTANTS
  MaxBytes,  \* the limit of the caller
  MaxAborts  \* 1, or 0 when the caller has no signal

VARIABLES
  file,     \* its mime, size and extension
  asks,     \* the options: image, buffer, list of accepted files, limit
  reading,  \* where the call is
  aborted,  \* signal.aborted
  listens,  \* the listener of attachAbort is on the signal
  image,    \* onload and onerror of the image are set
  answer,   \* what the promise was settled with
  late      \* history: the signal was aborted before the data was there

vars == <<file, asks, reading, aborted, listens, image, answer, late>>

Mimes == {"image", "other", "none"}
Extensions == {"none", "listed", "other"}
Lists == {"allowedMime", "accept", "any"}
Stages == {"called", "reading", "read", "decoding", "decoded", "settled"}
Answers == {"none", "value", "aborted", "notAllowed", "tooLarge", "failed", "notAnImage"}

TypeOK ==
  /\ file \in [mime : Mimes, size : 0 .. MaxBytes + 1, extension : Extensions]
  /\ asks \in [image : BOOLEAN, buffer : BOOLEAN, list : Lists, limited : BOOLEAN]
  /\ reading \in Stages /\ answer \in Answers
  /\ {aborted, listens, image, late} \subseteq BOOLEAN

Init ==
  /\ file \in [mime : Mimes, size : {MaxBytes, MaxBytes + 1}, extension : Extensions]
  /\ asks \in [image : BOOLEAN, buffer : BOOLEAN, list : Lists, limited : BOOLEAN]
  /\ asks.image => asks.list # "accept"
  /\ reading = "called" /\ answer = "none"
  /\ aborted \in (IF MaxAborts = 0 THEN {FALSE} ELSE BOOLEAN)
  /\ listens = FALSE /\ image = FALSE /\ late = aborted

Settle(a) == reading' = "settled" /\ answer' = a

\* validateFile: the lists of these callers allow images.  The list of accept looks at
\* the extension of the name, and at the mime of a name that has none.
Unaccepted ==
  file.extension = "other" \/ (file.extension = "none" /\ file.mime # "image")

Refusal ==
  CASE asks.list = "allowedMime" /\ file.mime # "image" -> "notAllowed"
    [] asks.list = "accept" /\ Unaccepted -> "notAllowed"
    [] asks.limited /\ file.size > MaxBytes -> "tooLarge"
    [] OTHER -> "none"

\* readFile up to its await: the reader starts, or throws.
Call ==
  /\ reading = "called"
  /\ UNCHANGED <<file, asks, aborted, image, late>>
  /\ IF asks.image /\ file.mime # "image" THEN Settle("notAnImage") /\ listens' = FALSE
     ELSE IF aborted THEN Settle("aborted") /\ listens' = FALSE
     ELSE IF Refusal # "none" THEN Settle(Refusal) /\ listens' = FALSE
     ELSE \/ reading' = "reading" /\ answer' = answer /\ listens' = (MaxAborts > 0)
          \/ Settle("failed") /\ listens' = FALSE

\* detachAbort of the three handlers.
Detached == FALSE

Load ==
  /\ reading = "reading"
  /\ listens' = Detached
  /\ UNCHANGED <<file, asks, aborted, image, late>>
  /\ \/ reading' = "read" /\ answer' = answer
     \/ Settle("failed")

ReaderFails ==
  /\ reading = "reading"
  /\ listens' = Detached /\ Settle("failed")
  /\ UNCHANGED <<file, asks, aborted, image, late>>

\* The awaits of readFile and readImageFile go on: an image that is not wanted as a
\* buffer is decoded from its data.
Resume ==
  /\ reading = "read"
  /\ UNCHANGED <<file, asks, aborted, listens, late>>
  /\ IF ~asks.image \/ asks.buffer THEN Settle("value") /\ image' = image
     ELSE IF aborted THEN Settle("aborted") /\ image' = image
     ELSE reading' = "decoding" /\ image' = TRUE /\ answer' = answer

Decode ==
  /\ reading = "decoding"
  /\ image' = FALSE
  /\ UNCHANGED <<file, asks, aborted, listens, late>>
  /\ \/ reading' = "decoded" /\ answer' = answer
     \/ Settle("failed")

DecodedAnswer == IF aborted THEN "aborted" ELSE "value"

ResumeDecoded ==
  /\ reading = "decoded"
  /\ Settle(DecodedAnswer)
  /\ UNCHANGED <<file, asks, aborted, listens, image, late>>

\* The caller aborts: the listener, which is called once, aborts the reader.
Abort ==
  /\ MaxAborts > 0 /\ ~aborted /\ aborted' = TRUE
  /\ late' = (reading \in {"called", "reading", "decoding"})
  /\ IF listens THEN listens' = FALSE /\ Settle("aborted")
     ELSE UNCHANGED <<listens, reading, answer>>
  /\ UNCHANGED <<file, asks, image>>

Next == Call \/ Load \/ ReaderFails \/ Resume \/ Decode \/ ResumeDecoded \/ Abort

Spec == Init /\ [][Next]_vars

-------------------------------------------------------------------------------
\* A caller who aborted before the data, or the image, was there gets no value,
\* wherever the abort came.
AbortedHasNoValue == late => answer # "value"

\* A settled call keeps no listener on the signal, which may outlive it by far, and
\* no handler on the image.
NothingListens == reading = "settled" => ~listens /\ ~image
===============================================================================
