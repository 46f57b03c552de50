CONSTANTS
  a = a  b = b  aJpeg = aJpeg  bJpeg = bJpeg  broken = broken  empty = empty
  red = red  newYork = newYork  new = new  york = york
  NoRow = NoRow
  Contents <- MCContents
  Decodable <- MCDecodable
  HeaderFormat <- MCHeaderFormat
  JpegOf <- MCJpegOf
  Tags = {}
  WordsOf <- NoWords
  FileWords <- NoFileWords
  InitialStore <- StoreOfA
  Importable = {b}
  EditGhosts = TRUE
  MaxId = 3
  MaxRequests = 6
  MaxRestarts = 0
SPECIFICATION FairSpec
PROPERTIES PurgeSparesUnmarked
\* The program goes idle when the user stops asking for things.
CHECK_DEADLOCK FALSE
