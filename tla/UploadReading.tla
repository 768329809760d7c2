---------------------------- MODULE UploadReading ----------------------------
(***************************************************************************)
(* read_upload and read_uploads: the files of a multipart request are read *)
(* chunk by chunk into memory, under a limit for one file and one for all  *)
(* of them. The bytes themselves are left out.                             *)
(***************************************************************************)
EXTENDS Integers, Sequences

CONSTANTS
    ChunkBytes,     \* CHUNK_BYTES
    MaxFileBytes,   \* max_file_bytes
    MaxTotalBytes,  \* max_total_upload_bytes
    MaxRequestBytes,\* max_request_bytes
    MaxFiles,       \* max_enrollment_files
    LongestBody     \* bound: the bytes of a body that declares no length

ASSUME UploadAssumption ==
    /\ {ChunkBytes, MaxFileBytes, MaxTotalBytes, MaxRequestBytes, MaxFiles,
        LongestBody} \subseteq Nat \ {0}
    /\ MaxFileBytes <= MaxTotalBytes
    /\ MaxTotalBytes <= MaxRequestBytes

VARIABLES
    reading,   \* "idle", "reading", "accepted", or the code of the ApiError
    uploads,   \* how many files the request has
    payloads,  \* the sizes of the payloads read so far
    buffer,    \* the size of the payload being read
    left       \* bytes of the body that the client has still to send

uploadVars == <<reading, uploads, payloads, buffer, left>>

RefusedUpload == {"too_many_audio_files", "unsupported_media_type",
                  "file_too_large", "empty_audio_file", "upload_total_too_large"}

Idle ==
    /\ reading = "idle"
    /\ uploads = 0
    /\ payloads = <<>>
    /\ buffer = 0
    /\ left = 0

\* total after the payloads of these sizes.
Total(sizes) ==
    LET sum[i \in 0..Len(sizes)] == IF i = 0 THEN 0 ELSE sum[i - 1] + sizes[i]
    IN  sum[Len(sizes)]

\* read_uploads is called with n files of a body of at most length bytes.
BeginUploads(n, length) ==
    /\ reading = "idle"
    /\ reading' = IF n > MaxFiles THEN "too_many_audio_files" ELSE "reading"
    /\ uploads' = n
    /\ left' = length
    /\ UNCHANGED <<payloads, buffer>>

RefuseMediaType ==
    /\ reading = "reading"
    /\ buffer = 0
    /\ reading' = "unsupported_media_type"
    /\ UNCHANGED <<uploads, payloads, buffer, left>>

\* A full chunk, checked against the file's limit only at the end of the file.
ReadChunkUnchecked ==
    /\ reading = "reading"
    /\ ChunkBytes <= left
    /\ buffer' = buffer + ChunkBytes
    /\ left' = left - ChunkBytes
    /\ UNCHANGED <<reading, uploads, payloads>>

\* A full chunk: more of the file may follow.
ReadChunk ==
    /\ reading = "reading"
    /\ ChunkBytes <= left
    /\ buffer' = buffer + ChunkBytes
    /\ left' = left - ChunkBytes
    /\ reading' = IF buffer' > MaxFileBytes THEN "file_too_large" ELSE "reading"
    /\ UNCHANGED <<uploads, payloads>>

\* The checks at the end of a file whose last bytes have come to size bytes.
EndOfFile(size) ==
    CASE size > MaxFileBytes                    -> "file_too_large"
      [] size = 0                               -> "empty_audio_file"
      [] size \in 1..MaxFileBytes
            /\ Total(payloads) + size > MaxTotalBytes -> "upload_total_too_large"
      [] OTHER -> IF Len(payloads) + 1 = uploads THEN "accepted" ELSE "reading"

\* The last chunk, shorter than a full one or empty. What was read is dropped
\* with the call when it raises.
EndUpload ==
    \E rest \in 0..(ChunkBytes - 1) :
        /\ reading = "reading"
        /\ rest <= left
        /\ left' = left - rest
        /\ reading' = EndOfFile(buffer + rest)
        /\ IF reading' \in RefusedUpload
           THEN /\ buffer' = buffer + rest
                /\ UNCHANGED payloads
           ELSE /\ payloads' = Append(payloads, buffer + rest)
                /\ buffer' = 0
        /\ UNCHANGED uploads

ReadNext == RefuseMediaType \/ ReadChunk \/ EndUpload

\* The call has returned or raised: its local variables are gone.
EndUploads ==
    /\ reading \in RefusedUpload \cup {"accepted"}
    /\ reading' = "idle"
    /\ uploads' = 0
    /\ payloads' = <<>>
    /\ buffer' = 0
    /\ left' = 0

-----------------------------------------------------------------------------

\* However long a body is, declared or not, what is held in memory stays within
\* the limits by at most one file and one chunk; and the payloads that are passed
\* on are all the files of the request, none empty, each within its limit and
\* within the limit for all.
UploadsAreBounded ==
    /\ Total(payloads) + buffer <= MaxTotalBytes + MaxFileBytes + ChunkBytes
    /\ reading = "accepted" =>
        /\ Len(payloads) = uploads
        /\ uploads <= MaxFiles
        /\ \A i \in DOMAIN payloads : payloads[i] \in 1..MaxFileBytes
        /\ Total(payloads) <= MaxTotalBytes
=============================================================================
