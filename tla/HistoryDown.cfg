CONSTANTS
    Ann = Ann
    Bob = Bob
    Devs = {Ann, Bob}
    Teams <- PusherAndWriter
    MaxVersion = 6
SPECIFICATION BothSpec
PROPERTIES
    DownRevertsWhatItNamed
CHECK_DEADLOCK FALSE
