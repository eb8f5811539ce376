\* CHECK_DEADLOCK: a text in UTF-8 is damaged once, and what is no longer
\* base64 or hexadecimal cannot be decoded.
SPECIFICATION Spec
CONSTANTS
  Second = 10
  Bytes <- MCBytes
  Codes <- MCCodes
  Now <- MCNow
  Zone <- MCZone
  Junk <- MCJunk
  Beyond <- MCBeyond
INVARIANTS BytesKept TimesAgree Utf8Correct
CHECK_DEADLOCK FALSE
