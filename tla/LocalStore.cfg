\* Two calls at a time on three keys, with failing calls and crashes.
CONSTANTS
  s1 = s1
  s2 = s2
  x = x
  y = y
  z = z
  Slots = {s1, s2}
  Keys <- MCKeys
  Blobs <- MCBlobs
  NoFile = NoFile
  Absent = Absent
  Dir = Dir
  Hole = Hole
  Ok = Ok
  NotFound = NotFound
  Error = Error
  Unknown = Unknown
  MaxWrites = 3
  Faults = TRUE
SPECIFICATION Spec
INVARIANTS TypeOK IntactUnlessSpoilt SumVouches AnswersAsS3
SYMMETRY Symmetry
