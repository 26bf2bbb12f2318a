----------------------------- MODULE MC_Standings ---------------------------
\* Labs graded by the API: every skill is one that gradeSkills emits.
EXTENDS Standings
CONSTANTS ann, bea, org

MC_Learners == <<ann, bea>>
MC_Orgs == <<org>>
MC_InOrg == [u \in {ann, bea} |-> org]
MC_Season == [start |-> 2, end |-> 4]
MC_Works ==
    {[points |-> 100, skill |-> SkillFor[type], level |-> "beginner", used |-> 4, hints |-> 0] :
       type \in DOMAIN SkillFor}
=============================================================================
