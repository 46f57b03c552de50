CONSTANTS
  a = a  b = b  aJpeg = aJpeg  bJpeg = bJpeg  broken = broken  empty = empty
  red = red  newYork = newYork  new = new  york = york
  NoRow = NoRow
  Contents <- MCContents
  Decodable <- MCDecodable
  HeaderFormat <- MCHeaderFormat
  JpegOf <- MCJpegOf
  Tags = {red}
  WordsOf <- OneWord
  FileWords <- RedFiles
  InitialStore <- StoreOfBroken
  Importable = {b}
  EditGhosts = FALSE
  MaxId = 3
  MaxRequests = 1
  MaxRestarts = 1
SPECIFICATION FairSpec
PROPERTIES PictureKept
\* The program goes idle when the user stops asking for things.
CHECK_DEADLOCK FALSE
