\* Appends of up to twice the buffer, any write failing.
SPECIFICATION Spec
CONSTANTS
  BufferSize = 3
  WritesMayFail = TRUE
  Sizes = {1, 2, 4, 7}
  MaxBytes = 8
INVARIANT TypeOK
INVARIANT InOrder
PROPERTY FlushedOnDisk
