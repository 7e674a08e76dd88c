SPECIFICATION Spec
CONSTANTS
    rootDir = rootDir
    dirA = dirA
    dirB = dirB
    jar = jar
    v1 = v1
    v2 = v2
    N = 3
    Root = rootDir
    Dirs <- MCDirs
    Path <- MCPath
    JarNames <- MCJarNames
    Jar <- MCJar
    Updatable <- MCUpdatable
    Versions <- MCVersions
    Installed <- MCInstalled
    Broken = Broken
    None = None
    Faults <- AllFaults
INVARIANTS
    TypeOK
    StaleOnlyByOthers
    FreshAfterRestart
    
