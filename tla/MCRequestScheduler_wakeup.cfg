CONSTANT Configs <- Wakeup
SPECIFICATION FairSpec
PROPERTY AllReadInTheEnd
