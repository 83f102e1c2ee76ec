SPECIFICATION Spec
CONSTANTS
    T = 4
    Year = 2
    MaxBackup = 3
    RepoCases <- OnlyCount
    Cluster = {a, b, c}
    NRepo = 2
    MaxStanzaBackup = 2
    MaxCommand = 3
    MaxChange = 2
    MaxStanzaFault = 1
    Parts = {"repo"}
SYMMETRY Others
PROPERTY HistoryLasts
