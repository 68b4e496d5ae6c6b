SPECIFICATION LiveSpec
CONSTANTS
    Key = {"a", "&", "nl", "^D", "^H", "^U"}
    Reader = {"sh", "cat"}
    INPUT_BUF = 3
    MaxKeys = 5
    MAXARGS = 3
    Lines <- MCLines
    MaxLine = 3
    LineMax = 8
    ReadSize = 3
INVARIANTS LineDiscipline ReadersServed ParserRight CleanDescriptors 
PROPERTY JobsEnd
CHECK_DEADLOCK FALSE
