SPECIFICATION Spec
CONSTANTS
    Ifaces <- MCIfaces
    Prefix <- MCPrefix
    IfKind <- MCIfKind
    Links <- MCLinks
    PassiveDefault = TRUE
    MaxObuf = 2
    MaxNbr = 1
    NoEi = NoEi
INVARIANTS
    TypeOK
    NoDanglingInterface
    WriteQueueConsistent
    QuietUnlessUp
    RunningTracksLink
